---- MODULE Spec2Model ----
(***************************************************************************)
(* A model of gamal: the three-stage answering pipeline (Reason, Search,   *)
(* Respond), the completion client with its retry policy and its           *)
(* server-sent-event parser, and the citation stream rewriter.             *)
(*                                                                         *)
(* The repository holds the program twice: gamal.js (the text that follows *)
(* the rollup configuration in src/rollup.config.js) and the module        *)
(* sources (src/unnamed/part_000).  The variable `build` says which of the *)
(* two is running; where they differ the model follows each.               *)
(***************************************************************************)
EXTENDS Integers, Sequences, FiniteSets, TLC

VARIABLES
    build,        \* "gamal" or "index": which of the two programs runs
    llmStreaming, \* LLM_STREAMING
    pc,           \* position of the pipeline invocation
    stageIdx,     \* index into PipeOrder of the stage that runs
    callNo,       \* in Reason: 1 = first completion, 2 = repair completion
    trace,        \* the enter/leave delegate calls made so far
    attempt,      \* the `attempt` parameter of the running chat/searxng call
    call,         \* the running (or last) network call
    sent,         \* requests sent so far, per stage
    keyphrases,   \* what breakdown() found: "absent", "empty" or "present"
    references,   \* result of the Search stage
    error,        \* name of the error the invocation failed with ("" if none)
    \* the completion client reading one response (chat(), after fetch)
    events,       \* the response, streaming: the lines of the event stream
    body,         \* the response, not streaming: the JSON body
    wire,         \* the part of the event stream that was not read yet
    answer,       \* chat(): let answer
    buffer,       \* chat(): let buffer
    partials,     \* the calls of handler (onPartial) so far, in order
    chatPhase,    \* "idle", "reading", "returned" or "threw"
    sawDone,      \* history: the line data: [DONE] has been read
    aligned,      \* history: every read so far ended at the end of a line
    twin,         \* history: answer, buffer and handler calls of the same reads of
                  \* the stream with its events in the delta shape
    \* the citation stream rewriter of one answer: push() and flush()
    text,         \* the answer that is streamed to the display
    pending,      \* the part of the answer that was not pushed yet
    cite,         \* display.cite: "http" ([n]) or "terminal" (coloured [n])
    display,      \* display.buffer and display.refs
    printed,      \* what print() was given so far, all calls joined
    lastPrint,    \* what the last call of print() was given
    refsOut,      \* display.refs.slice(), which the surface takes before flush()
    dispPhase,    \* "idle", "streaming" or "flushed"
    \* the structured-record codec: construct(), deconstruct(), breakdown()
    record,       \* the key-value pairs given to construct()
    encoded,      \* the text that is decoded
    decoded,      \* the key-value pairs that were decoded
    hint,         \* the hint that breakdown() is given
    codecPhase,   \* "idle", or how far the encoding or decoding has come
    \* searxng(): from the results of the backend to the references
    results,      \* the results the search backend answered with
    shaped,       \* "idle", "raw", "returned" or "threw"
    \* respond(): what the stage hands to chat() and what it logs
    messages,     \* the message list
    warned,       \* whether console.error('No references to cite') ran
    \* the delegates
    streamed,     \* the calls of the stream delegate so far, in order
    \* the reference list a surface prints after the answer
    listed,       \* the lines of the list: ordinal and url
    listPhase,    \* "idle", "written", "skipped" or "threw"
    \* a surface (terminal, HTTP, Telegram, evaluation) and one conversation
    surface,      \* "terminal", "http", "telegram" or "evaluate"
    heap,         \* the arrays that were created as histories, by identity
    slot,         \* the array that `history` (state[chat.id]) refers to, 0: undefined
    jobs,         \* the inquiries that arrived, in order, and how far each handler is
    alive,        \* whether the process runs
    \* the context that the stages hand on
    given,        \* the context that the pipeline was called with
    context,      \* the context that the last stage returned
    array,        \* what the array that context.history refers to holds
    ctxAt,        \* how many stages have returned
    histories,    \* the histories of two invocations that are compared
    asked         \* the message lists the two invocations sent, by stage

pipeVars == <<build, llmStreaming, pc, stageIdx, callNo, trace, attempt, call,
              sent, keyphrases, references, error>>

clientVars == <<events, body, wire, answer, buffer, partials, chatPhase, sawDone, aligned, twin>>

displayVars == <<text, pending, cite, display, printed, lastPrint, refsOut, dispPhase>>

codecVars == <<record, encoded, decoded, hint, codecPhase>>

searchVars == <<results, shaped>>

respondVars == <<messages, warned>>

listVars == <<listed, listPhase>>

surfaceVars == <<surface, heap, slot, jobs, alive>>

contextVars == <<given, context, array, ctxAt, histories, asked>>

laterVars == <<listVars, surfaceVars, contextVars>>

vars == <<pipeVars, clientVars, displayVars, codecVars, searchVars, respondVars, streamed, laterVars>>

others == <<clientVars, displayVars, codecVars, searchVars, laterVars>>

notPipe == <<others, respondVars, streamed>>

notClient == <<pipeVars, displayVars, codecVars, searchVars, respondVars, streamed, laterVars>>

notDisplay == <<pipeVars, clientVars, codecVars, searchVars, respondVars, streamed, laterVars>>

notCodec == <<pipeVars, clientVars, displayVars, searchVars, respondVars, streamed, laterVars>>

\* const parts = {}
NoParts == [f \in {} |-> <<>>]

\* No text is being encoded or decoded
CodecIdle ==
    /\ record = NoParts /\ encoded = <<>> /\ decoded = NoParts /\ hint = <<>>
    /\ codecPhase = "idle"

\* No search response is being turned into references
SearchIdle == results = <<>> /\ shaped = "idle"

\* No reference list is being printed
ListIdle == listed = <<>> /\ listPhase = "idle"

\* No surface runs
SurfaceIdle ==
    /\ surface = "terminal" /\ heap = <<>> /\ slot = 0 /\ jobs = <<>> /\ alive = TRUE

\* No context is handed on
ContextIdle ==
    /\ given = NoParts /\ context = NoParts /\ array = <<>> /\ ctxAt = 0
    /\ histories = <<>> /\ asked = NoParts

\* No answer is being displayed
DisplayIdle ==
    /\ text = <<>> /\ pending = <<>> /\ cite = "http"
    /\ display = [buffer |-> <<>>, refs |-> <<>>]
    /\ printed = <<>> /\ lastPrint = <<>> /\ refsOut = <<>> /\ dispPhase = "idle"

----------------------------------------------------------------------------
(* Program constants *)

MAX_RETRY_ATTEMPT == 3
TOP_K == 3
BACKOFF_UNIT == 1500

(* Bounds of the model *)

MaxResults == 2      \* longest result list a search backend returns
MaxLines == 3        \* longest event stream, in lines
MaxText == 2         \* longest text of one part of a response body, in characters
MaxCandidates == 2   \* most candidates a response body carries
MaxParts == 2        \* most parts of one candidate of a response body
MaxRanked == 4       \* longest ranked result list that is turned into references
MaxCompletion == 4   \* longest completion in lines, in pieces
MaxJson == 6         \* longest completion in JSON, in pieces
MaxFragments == 2    \* the parts a streamed reply is delivered in
MaxJobs == 3         \* most inquiries that arrive at a surface
MaxHistory == 4      \* longest history of a conversation, in turns

----------------------------------------------------------------------------
(* Helpers *)

Last(s) == s[Len(s)]

\* parts[key] = value
Put(parts, key, value) == [k \in DOMAIN parts \cup {key} |-> IF k = key THEN value ELSE parts[k]]

IsPrefix(s, t) == Len(s) <= Len(t) /\ SubSeq(t, 1, Len(s)) = s

RECURSIVE SeqsUpTo(_, _)
SeqsUpTo(S, n) ==
    IF n = 0 THEN {<<>>}
    ELSE LET shorter == SeqsUpTo(S, n - 1)
         IN  shorter \cup {Append(s, x) : s \in {t \in shorter : Len(t) = n - 1}, x \in S}

----------------------------------------------------------------------------
(* The pipeline: pipe(reason, search, respond) *)

Builds == {"gamal", "index"}

PipeOrderSwapped == <<"Reason", "Respond", "Search">>

\* pipe(reason, search, respond): the stages in the order reduce() chains them
PipeOrder == <<"Reason", "Search", "Respond">>

Stage == PipeOrder[stageIdx]

\* What the backend does with the k-th request of one call.
\*   ok      a success status and a well-formed body
\*   http    a non-success HTTP status
\*   silent  no response at all, or a response that stops before its end
\*   reset   the connection fails (fetch rejects with a TypeError)
\*   badbody a success status and a body that is not what was asked for
Outcomes == {"ok", "http", "silent", "reset", "badbody"}

Scripts == [1..MAX_RETRY_ATTEMPT -> Outcomes]

\* The index of the running attempt: 1 for attempt = MAX_RETRY_ATTEMPT
AttemptIndex(a) == MAX_RETRY_ATTEMPT - a + 1

\* The text the backend answers the k-th request with (one text per attempt)
ReplyText(k) == k

RetryableAny(name) == TRUE

\* catch (e): e.name === 'TimeoutError' || e.name === 'EvalError'
Retryable(name) == name \in {"TimeoutError", "EvalError"}

BackoffFlat(a) == BACKOFF_UNIT

\* sleep((MAX_RETRY_ATTEMPT - attempt + 1) * 1500)
Backoff(a) == (MAX_RETRY_ATTEMPT - a + 1) * BACKOFF_UNIT

\* chat(): throw new Error(...) in gamal.js, throw new EvalError(...) in index.js
ChatHttpError(b) == IF b = "gamal" THEN "Error" ELSE "EvalError"

\* searxng(): throw new EvalError(...)
SearchHttpError(b) == "EvalError"

\* whether fetch() is given signal: AbortSignal.timeout(timeout * 1000)
HasDeadline(kind, b) == kind = "search" \/ b = "index"

Request(msgs) == [op |-> "request", msgs |-> msgs, ms |-> 0]
Sleep(ms) == [op |-> "sleep", msgs |-> "", ms |-> ms]

NoCall == [kind |-> "none", msgs |-> "", script |-> [k \in 1..MAX_RETRY_ATTEMPT |-> "ok"],
           log |-> <<>>, status |-> "none", text |-> 0, error |-> ""]

StartCall(kind, msgs, sc) ==
    [kind |-> kind, msgs |-> msgs, script |-> sc, log |-> <<Request(msgs)>>,
     status |-> "running", text |-> 0, error |-> ""]

Outcome == call.script[AttemptIndex(attempt)]

\* A search result entry: url and content may each be missing
Entries == [url : {"", "u"}, content : {"", "c"}]

ResultLists == SeqsUpTo(Entries, MaxResults)

\* gamal.js: url && url.length > 0 && content && content.length > 0
\* index.js: url && url.length > 0
Usable(b, e) == IF b = "gamal" THEN e.url # "" /\ e.content # "" ELSE e.url # ""

RECURSIVE Filter(_, _)
Filter(b, rs) ==
    IF rs = <<>> THEN <<>>
    ELSE IF Usable(b, Head(rs)) THEN <<Head(rs)>> \o Filter(b, Tail(rs))
         ELSE Filter(b, Tail(rs))

Slice(s, n) == SubSeq(s, 1, IF Len(s) < n THEN Len(s) ELSE n)

\* results.filter(...).slice(0, TOP_K).map((entry, i) => ({ position: i + 1, ... }))
MakeReferences(b, rs) ==
    LET kept == Slice(Filter(b, rs), TOP_K)
    IN  [i \in 1..Len(kept) |-> [position |-> i, url |-> kept[i].url, snippet |-> kept[i].content]]

----------------------------------------------------------------------------
(* One pipeline invocation *)

PipeStart ==
    /\ build \in Builds
    /\ llmStreaming \in BOOLEAN
    /\ pc = "ready"
    /\ stageIdx = 1
    /\ callNo = 1
    /\ trace = <<>>
    /\ attempt = MAX_RETRY_ATTEMPT
    /\ call = NoCall
    /\ sent = [s \in {"Reason", "Search", "Respond"} |-> 0]
    /\ keyphrases = "absent"
    /\ references = <<>>
    /\ error = ""
    /\ messages = <<>>
    /\ warned = FALSE
    /\ streamed = <<>>

PipeInit == PipeStart /\ ListIdle /\ SurfaceIdle /\ ContextIdle

\* pipe(): d.then(fn) hands the stage's result to the next stage, if any
Advance ==
    /\ pc' = IF stageIdx = Len(PipeOrder) THEN "done" ELSE "ready"
    /\ stageIdx' = IF stageIdx = Len(PipeOrder) THEN stageIdx ELSE stageIdx + 1

\* The catch block of chat() and of searxng()
Raise(name) ==
    IF attempt > 1 /\ Retryable(name)
    THEN /\ pc' = "sleep"
         /\ call' = [call EXCEPT !.log = Append(@, Sleep(Backoff(attempt)))]
         /\ UNCHANGED error
    ELSE /\ pc' = "failed"
         /\ call' = [call EXCEPT !.status = "threw", !.error = name]
         /\ error' = name

\* reason(): enter('Reason'), build the messages, await chat(messages, schema)
ReasonEnter ==
    /\ pc = "ready" /\ Stage = "Reason"
    /\ trace' = Append(trace, <<"enter", "Reason">>)
    /\ \E sc \in Scripts : call' = StartCall("chat", "reason", sc)
    /\ attempt' = MAX_RETRY_ATTEMPT
    /\ callNo' = 1
    /\ sent' = [sent EXCEPT !["Reason"] = @ + 1]
    /\ pc' = "await"
    /\ UNCHANGED notPipe
    /\ UNCHANGED <<build, llmStreaming, stageIdx, keyphrases, references, error>>

\* The parts a streamed reply is delivered in
PartsOf(reply) == [i \in 1..MaxFragments |-> i]

\* One call of the stream delegate: a part of a reply (0: the whole reply),
\* and how many enter/leave calls had been made before it
StreamCall(reply, part) == [reply |-> reply, part |-> part, at |-> Len(trace)]

\* The calls of handler while the running attempt reads the first n parts of
\* its reply.  reason() gives chat() no handler, respond() gives it stream;
\* without streaming the handler is called once, after the whole body was read
HandlerCalls(n) ==
    LET reply == ReplyText(AttemptIndex(attempt))
    IN  IF Stage # "Respond" THEN <<>>
        ELSE IF llmStreaming THEN [i \in 1..n |-> StreamCall(reply, PartsOf(reply)[i])]
        ELSE IF n = Len(PartsOf(reply)) THEN <<StreamCall(reply, 0)>>
        ELSE <<>>

\* chat(): the response is ok and the body is read to its end
ChatOk ==
    /\ pc = "await" /\ call.kind = "chat"
    /\ \/ Outcome = "ok"
          /\ call' = [call EXCEPT !.status = "returned", !.text = ReplyText(AttemptIndex(attempt))]
          /\ streamed' = streamed \o HandlerCalls(Len(PartsOf(ReplyText(AttemptIndex(attempt)))))
       \/ Outcome = "badbody" /\ Stage = "Respond" /\ llmStreaming
          \* streaming: lines that do not parse add nothing to the answer
          /\ call' = [call EXCEPT !.status = "returned", !.text = 0]
          /\ UNCHANGED streamed
    /\ pc' = "returned"
    /\ UNCHANGED <<others, respondVars>>
    /\ UNCHANGED <<build, llmStreaming, stageIdx, callNo, trace, attempt, sent,
                   keyphrases, references, error>>

\* chat(): !response.ok
ChatHttp ==
    /\ pc = "await" /\ call.kind = "chat"
    /\ Outcome = "http"
    /\ Raise(ChatHttpError(build))
    /\ UNCHANGED notPipe
    /\ UNCHANGED <<build, llmStreaming, stageIdx, callNo, trace, attempt, sent,
                   keyphrases, references>>

\* chat(): fetch rejects, or response.json() throws
ChatFault ==
    /\ pc = "await" /\ call.kind = "chat"
    /\ \/ Outcome = "reset" /\ Raise("TypeError")
       \/ Outcome = "badbody" /\ ~(Stage = "Respond" /\ llmStreaming) /\ Raise("SyntaxError")
    /\ UNCHANGED notPipe
    /\ UNCHANGED <<build, llmStreaming, stageIdx, callNo, trace, attempt, sent,
                   keyphrases, references>>

\* chat(): AbortSignal.timeout(timeout * 1000) fires
ChatDeadline ==
    /\ pc = "await" /\ call.kind = "chat"
    /\ Outcome = "silent"
    /\ HasDeadline("chat", build)
    \* the parts of the answer that were read before the deadline
    /\ \E n \in 0..(Len(PartsOf(ReplyText(AttemptIndex(attempt)))) - 1) :
          streamed' = streamed \o HandlerCalls(n)
    /\ Raise("TimeoutError")
    /\ UNCHANGED <<others, respondVars>>
    /\ UNCHANGED <<build, llmStreaming, stageIdx, callNo, trace, attempt, sent,
                   keyphrases, references>>

\* after sleep(): return await chat(messages, schema, handler, attempt - 1),
\* or return await searxng(query, language, attempt - 1)
Wake ==
    /\ pc = "sleep"
    /\ attempt' = attempt - 1
    /\ call' = [call EXCEPT !.log = Append(@, Request(call.msgs))]
    /\ sent' = [sent EXCEPT ![Stage] = @ + 1]
    /\ pc' = "await"
    /\ UNCHANGED notPipe
    /\ UNCHANGED <<build, llmStreaming, stageIdx, callNo, trace, keyphrases, references, error>>

NeedsRepairAgain(kp, n) == kp # "present"

\* if (!result.keyphrases || result.keyphrases.length === 0), which reason()
\* reaches after its first completion only
NeedsRepair(kp, n) == kp # "present" /\ n = 1

\* reason(): breakdown(hint, completion), the repair request, leave('Reason')
ReasonResume ==
    /\ pc = "returned" /\ Stage = "Reason"
    /\ \E kp \in {"absent", "empty", "present"} :
        /\ keyphrases' = kp
        /\ IF NeedsRepair(kp, callNo)
           THEN /\ \E sc \in Scripts : call' = StartCall("chat", "repair", sc)
                /\ attempt' = MAX_RETRY_ATTEMPT
                /\ callNo' = 2
                /\ sent' = [sent EXCEPT !["Reason"] = @ + 1]
                /\ pc' = "await"
                /\ UNCHANGED <<trace, stageIdx>>
           ELSE /\ trace' = Append(trace, <<"leave", "Reason">>)
                /\ Advance
                /\ UNCHANGED <<call, attempt, callNo, sent>>
    /\ UNCHANGED notPipe
    /\ UNCHANGED <<build, llmStreaming, references, error>>

\* search(): enter('Search'), build the query, await searxng(query, language)
SearchEnter ==
    /\ pc = "ready" /\ Stage = "Search"
    /\ trace' = Append(trace, <<"enter", "Search">>)
    /\ IF keyphrases = "absent"
       THEN \* keyphrases.replace(...) on undefined
            /\ pc' = "failed"
            /\ error' = "TypeError"
            /\ UNCHANGED <<call, attempt, sent>>
       ELSE /\ \E sc \in Scripts : call' = StartCall("search", "query", sc)
            /\ attempt' = MAX_RETRY_ATTEMPT
            /\ sent' = [sent EXCEPT !["Search"] = @ + 1]
            /\ pc' = "await"
            /\ UNCHANGED error
    /\ UNCHANGED notPipe
    /\ UNCHANGED <<build, llmStreaming, stageIdx, callNo, keyphrases, references>>

\* searxng(): the response is ok; filter, slice, map; no usable result throws
SearchResults ==
    /\ pc = "await" /\ call.kind = "search"
    /\ Outcome = "ok" \/ (Outcome = "badbody" /\ build = "index")
    /\ \E rs \in ResultLists :
        /\ Outcome = "badbody" => rs = <<>>
        /\ LET refs == MakeReferences(build, rs)
           IN  IF Len(refs) <= 0
               THEN Raise("EvalError") /\ UNCHANGED references
               ELSE /\ references' = refs
                    /\ call' = [call EXCEPT !.status = "returned"]
                    /\ pc' = "returned"
                    /\ UNCHANGED error
    /\ UNCHANGED notPipe
    /\ UNCHANGED <<build, llmStreaming, stageIdx, callNo, trace, attempt, sent, keyphrases>>

\* searxng(): !response.ok
SearchHttp ==
    /\ pc = "await" /\ call.kind = "search"
    /\ Outcome = "http"
    /\ Raise(SearchHttpError(build))
    /\ UNCHANGED notPipe
    /\ UNCHANGED <<build, llmStreaming, stageIdx, callNo, trace, attempt, sent,
                   keyphrases, references>>

\* searxng(): fetch rejects, or (gamal.js) response.json() throws
SearchFault ==
    /\ pc = "await" /\ call.kind = "search"
    /\ \/ Outcome = "reset" /\ Raise("TypeError")
       \/ Outcome = "badbody" /\ build = "gamal" /\ Raise("SyntaxError")
    /\ UNCHANGED notPipe
    /\ UNCHANGED <<build, llmStreaming, stageIdx, callNo, trace, attempt, sent,
                   keyphrases, references>>

\* searxng(): AbortSignal.timeout(timeout * 1000) fires
SearchDeadline ==
    /\ pc = "await" /\ call.kind = "search"
    /\ Outcome = "silent"
    /\ HasDeadline("search", build)
    /\ Raise("TimeoutError")
    /\ UNCHANGED notPipe
    /\ UNCHANGED <<build, llmStreaming, stageIdx, callNo, trace, attempt, sent,
                   keyphrases, references>>

\* search(): leave('Search', ...), return { ...context, references }
SearchResume ==
    /\ pc = "returned" /\ Stage = "Search"
    /\ trace' = Append(trace, <<"leave", "Search">>)
    /\ Advance
    /\ UNCHANGED notPipe
    /\ UNCHANGED <<build, llmStreaming, callNo, attempt, call, sent, keyphrases,
                   references, error>>

Message(role, content) == [role |-> role, content |-> content]

\* respond(): the messages.push calls.  gamal.js pushes the inquiry after the
\* if/else, index.js inside the branch that has references
RespondMessages(b, refs) ==
    IF Len(refs) > 0
    THEN <<Message("system", "prompt"), Message("user", "inquiry")>>
    ELSE IF b = "gamal" THEN <<Message("user", "inquiry")>> ELSE <<>>

\* respond(): else { console.error('No references to cite') }
Warns(refs) == ~(Len(refs) > 0)

\* respond(): enter('Respond'), build the messages, await chat(messages, schema, stream)
RespondEnter ==
    /\ pc = "ready" /\ Stage = "Respond"
    /\ trace' = Append(trace, <<"enter", "Respond">>)
    /\ messages' = RespondMessages(build, references)
    /\ warned' = Warns(references)
    /\ \E sc \in Scripts : call' = StartCall("chat", "respond", sc)
    /\ attempt' = MAX_RETRY_ATTEMPT
    /\ sent' = [sent EXCEPT !["Respond"] = @ + 1]
    /\ pc' = "await"
    /\ UNCHANGED <<others, streamed>>
    /\ UNCHANGED <<build, llmStreaming, stageIdx, callNo, keyphrases, references, error>>

\* respond(): leave('Respond', { inquiry }), return { answer, ...context }
RespondResume ==
    /\ pc = "returned" /\ Stage = "Respond"
    /\ trace' = Append(trace, <<"leave", "Respond">>)
    /\ Advance
    /\ UNCHANGED notPipe
    /\ UNCHANGED <<build, llmStreaming, callNo, attempt, call, sent, keyphrases,
                   references, error>>

----------------------------------------------------------------------------
(* The completion client reading one response: chat(), after fetch() returned *)

\* A text is a sequence of characters.  An event stream is a sequence of
\* pieces of text: single characters, "\n", and the following pieces, each of
\* which stands for the characters it names and is never cut in two:
\*   "data: "  the prefix of a data line
\*   "[DONE]"  the payload of the sentinel line
\*   "{"       {"choices":[{"delta":{"content":"      (the content follows)
\*   "}"       "}}]}
\*   "{-"      {"choices":[{"del      "-}"   ta":{}}]}    (an event without content)
\*   ":"       the first character of a comment line
NL == "\n"

\* No body: the response is streamed
NoBody == [shape |-> "none", cands |-> <<>>]

FragChars == {"a", "b", " "}

Whitespace == {" ", NL}

\* String.prototype.trim() and its two halves
RECURSIVE TrimStart(_)
TrimStart(t) == IF t # <<>> /\ Head(t) \in Whitespace THEN TrimStart(Tail(t)) ELSE t

RECURSIVE TrimEnd(_)
TrimEnd(t) ==
    IF t # <<>> /\ t[Len(t)] \in Whitespace THEN TrimEnd(SubSeq(t, 1, Len(t) - 1)) ELSE t

TrimNothing(t) == t

Trim(t) == TrimStart(TrimEnd(t))

\* The lines an event stream is made of
CommentLine == <<":", "x">>
DoneLine == <<"data: ", "[DONE]">>
DataLine(content) == <<"data: ", "{">> \o content \o <<"}">>
NoContentLine == <<"data: ", "{-", "-}">>
BlankLine == <<>>

Fragments == {<<"a">>, <<"a", " ">>, <<" ", "b">>, <<" ">>, <<>>}

Lines == {CommentLine, DoneLine, NoContentLine, BlankLine} \cup {DataLine(f) : f \in Fragments}

Streams == SeqsUpTo(Lines, MaxLines)

\* The characters of a stream: every line followed by a newline
RECURSIVE Bytes(_)
Bytes(ls) == IF ls = <<>> THEN <<>> ELSE Head(ls) \o <<NL>> \o Bytes(Tail(ls))

\* decoder.decode(value).split('\n')
RECURSIVE SplitNL(_, _)
SplitNL(chunk, cur) ==
    IF chunk = <<>> THEN <<cur>>
    ELSE IF Head(chunk) = NL THEN <<cur>> \o SplitNL(Tail(chunk), <<>>)
         ELSE SplitNL(Tail(chunk), Append(cur, Head(chunk)))

\* parts.map(part => part.text).join('')
RECURSIVE Join(_)
Join(parts) == IF parts = <<>> THEN <<>> ELSE Head(parts) \o Join(Tail(parts))

\* A payload with `candidates`: {[ and ]} around the texts of the parts of the
\* first candidate's content, one character each
IsBlocks(payload) ==
    /\ Len(payload) >= 2
    /\ payload[1] = "{[" /\ payload[Len(payload)] = "]}"
    /\ \A i \in 2..(Len(payload) - 1) : payload[i] \in FragChars

\* JSON.parse(payload) and delta?.content: "null" when the payload does not
\* parse (partial stays null), "undefined" when the event has no content.
\* gamal.js hands a payload with `candidates` to extract(); in index.js
\* `const [choice] = choices` throws for it and partial stays null
ParsePayload(payload) ==
    IF /\ Len(payload) >= 2
       /\ payload[1] = "{" /\ payload[Len(payload)] = "}"
       /\ \A i \in 2..(Len(payload) - 1) : payload[i] \in FragChars
    THEN [kind |-> "string", text |-> SubSeq(payload, 2, Len(payload) - 1)]
    ELSE IF payload = <<"{-", "-}">>
         THEN [kind |-> "undefined", text |-> <<>>]
    ELSE IF IsBlocks(payload) /\ build = "gamal"
         THEN [kind |-> "string",
               text |-> Join([i \in 1..(Len(payload) - 2) |-> <<payload[i + 1]>>])]
         ELSE [kind |-> "null", text |-> <<>>]

\* const parse = (line) => ...
Parse(line) ==
    IF line # <<>> /\ line[1] = "data: "
    THEN ParsePayload(Tail(line))
    ELSE [kind |-> "null", text |-> <<>>]

\* const leading = partial.trim()
FirstFragment(partial) == Trim(partial)

\* The body of the for loop, for one element of lines[]; brk: the loop is left
Line(st, piece) ==
    LET line == st.buffer \o piece
    IN  IF line # <<>> /\ line[1] = ":"
        THEN [st |-> [st EXCEPT !.buffer = <<>>], brk |-> FALSE]
        ELSE IF line = DoneLine
        THEN [st |-> [st EXCEPT !.sawDone = TRUE], brk |-> TRUE]
        ELSE IF Len(line) > 0
        THEN LET partial == Parse(Trim(line))
             IN  IF partial.kind = "null"
                 THEN [st |-> [st EXCEPT !.buffer = line], brk |-> FALSE]
                 ELSE IF partial.kind = "string" /\ Len(partial.text) > 0
                 THEN IF Len(st.answer) < 1
                      THEN LET leading == FirstFragment(partial.text)
                           IN  [st |-> [st EXCEPT !.buffer = <<>>,
                                                  !.answer = leading,
                                                  !.partials = IF Len(leading) > 0
                                                               THEN Append(@, leading) ELSE @],
                                brk |-> FALSE]
                      ELSE [st |-> [st EXCEPT !.buffer = <<>>,
                                              !.answer = @ \o partial.text,
                                              !.partials = Append(@, partial.text)],
                            brk |-> FALSE]
                 ELSE [st |-> st, brk |-> FALSE]
        ELSE [st |-> st, brk |-> FALSE]

\* for (let i = 0; i < lines.length; ++i) { ... break ... }
RECURSIVE ForLines(_, _)
ForLines(st, pieces) ==
    IF pieces = <<>> THEN st
    ELSE LET r == Line(st, Head(pieces))
         IN  IF r.brk THEN r.st ELSE ForLines(r.st, Tail(pieces))

\* One turn of while (true): the lines of one read
Chunk(st, chunk) == ForLines(st, SplitNL(chunk, <<>>))

Fresh == [answer |-> <<>>, buffer |-> <<>>, partials |-> <<>>, sawDone |-> FALSE]

Now == [answer |-> answer, buffer |-> buffer, partials |-> partials, sawDone |-> sawDone]

\* The reads of a stream whose every line arrives whole, one line a read
RECURSIVE WholeLines(_, _)
WholeLines(st, ls) ==
    IF ls = <<>> THEN st ELSE WholeLines(Chunk(st, Head(ls) \o <<NL>>), Tail(ls))

StreamInit ==
    /\ PipeInit
    /\ llmStreaming
    /\ events \in Streams
    /\ body = NoBody
    /\ wire = Bytes(events)
    /\ answer = <<>>
    /\ buffer = <<>>
    /\ partials = <<>>
    /\ chatPhase = "reading"
    /\ sawDone = FALSE
    /\ aligned = TRUE
    /\ twin = Fresh
    /\ DisplayIdle /\ CodecIdle /\ SearchIdle

\* The characters of a stream with the events of the content-block shape
\* written in the delta shape
InDelta(chunk) ==
    [i \in 1..Len(chunk) |-> IF chunk[i] = "{[" THEN "{" ELSE IF chunk[i] = "]}" THEN "}" ELSE chunk[i]]

\* const { value, done } = await reader.read(), with done false: the next n
\* characters of the stream arrive
Read ==
    /\ chatPhase = "reading"
    /\ wire # <<>>
    /\ \E n \in 1..Len(wire) :
        LET st == Chunk(Now, SubSeq(wire, 1, n))
        IN  /\ answer' = st.answer
            /\ buffer' = st.buffer
            /\ partials' = st.partials
            /\ sawDone' = st.sawDone
            /\ aligned' = (aligned /\ wire[n] = NL)
            /\ twin' = Chunk(twin, InDelta(SubSeq(wire, 1, n)))
            /\ wire' = SubSeq(wire, n + 1, Len(wire))
    /\ UNCHANGED <<events, body, chatPhase>>
    /\ UNCHANGED notClient

\* reader.read() with done true: break, return answer
ReadEnd ==
    /\ chatPhase = "reading"
    /\ wire = <<>>
    /\ chatPhase' = "returned"
    /\ UNCHANGED <<events, body, wire, answer, buffer, partials, sawDone, aligned, twin>>
    /\ UNCHANGED notClient

StreamNext == Read \/ ReadEnd

\* An event of the content-block shape that carries the text `content`
BlockLine(content) == <<"data: ", "{[">> \o content \o <<"]}">>

\* The event of the shape `shape` that carries the fragment f
EventOf(shape, f) == IF shape = "delta" THEN DataLine(f) ELSE BlockLine(f)

\* A backend streams the fragments f1..fn in one of the two shapes
FormatsInit ==
    /\ PipeInit
    /\ llmStreaming
    /\ \E shape \in {"delta", "blocks"}, fs \in SeqsUpTo(Fragments, MaxLines) :
          events = [i \in 1..Len(fs) |-> EventOf(shape, fs[i])]
    /\ body = NoBody
    /\ wire = Bytes(events)
    /\ answer = <<>>
    /\ buffer = <<>>
    /\ partials = <<>>
    /\ chatPhase = "reading"
    /\ sawDone = FALSE
    /\ aligned = TRUE
    /\ twin = Fresh
    /\ DisplayIdle /\ CodecIdle /\ SearchIdle

FormatsNext == Read \/ ReadEnd

SpecFormats == FormatsInit /\ [][FormatsNext]_vars

SpecStream == StreamInit /\ [][StreamNext]_vars

----------------------------------------------------------------------------
(* The completion client reading a response that is not streamed *)

BodyChars == {"a", " "}

Texts == SeqsUpTo(BodyChars, MaxText)

\* A body is JSON or not.  A JSON body lists its candidates under `choices`
\* (each with message.content, one text) or under `candidates` (each with
\* content.parts, texts to be joined); a candidate is the sequence of its texts.
\* Under `candidates` a part holds one character or none: longer texts come
\* from joining the parts.
Parts == {<<>>} \cup {<<c>> : c \in BodyChars}

Bodies ==
    [shape : {"choices"}, cands : SeqsUpTo({<<t>> : t \in Texts}, MaxCandidates)]
    \cup [shape : {"candidates"}, cands : SeqsUpTo(SeqsUpTo(Parts, MaxParts), MaxCandidates)]
    \cup {[shape |-> "malformed", cands |-> <<>>]}

ExtractLast(d) == IF d.cands = <<>> THEN <<>> ELSE Join(d.cands[Len(d.cands)])

\* gamal.js: const extract = (data) => ...; index.js: choices[0].message.content
Extract(d) == IF d.cands = <<>> THEN <<>> ELSE Join(Head(d.cands))

\* Whether reading the body throws: response.json() on a body that is not
\* JSON; in index.js also choices[0] without choices, message of no candidate
BodyThrows(b, d) ==
    \/ d.shape = "malformed"
    \/ b = "index" /\ (d.shape # "choices" \/ d.cands = <<>>)

\* gamal.js: (answer.length > 0) && handler && handler(answer)
\* index.js: handler && handler(answer)
Notifies(b, content) == b = "index" \/ Len(content) > 0

BodyInit ==
    /\ PipeInit
    /\ ~llmStreaming
    /\ body \in Bodies
    /\ events = <<>> /\ wire = <<>> /\ answer = <<>> /\ buffer = <<>>
    /\ partials = <<>> /\ chatPhase = "reading" /\ sawDone = FALSE /\ aligned = TRUE
    /\ twin = Fresh
    /\ DisplayIdle /\ CodecIdle /\ SearchIdle

\* if (!stream) { ...; return answer; } with a handler given
BodyReturn ==
    /\ chatPhase = "reading"
    /\ ~BodyThrows(build, body)
    /\ answer' = Trim(Extract(body))
    /\ partials' = IF Notifies(build, answer') THEN <<answer'>> ELSE <<>>
    /\ chatPhase' = "returned"
    /\ UNCHANGED <<events, body, wire, buffer, sawDone, aligned, twin>>
    /\ UNCHANGED notClient

\* if (!stream) { ... }: response.json() or the destructuring throws
BodyThrow ==
    /\ chatPhase = "reading"
    /\ BodyThrows(build, body)
    /\ chatPhase' = "threw"
    /\ UNCHANGED <<events, body, wire, answer, buffer, partials, sawDone, aligned, twin>>
    /\ UNCHANGED notClient

BodyNext == BodyReturn \/ BodyThrow

SpecBody == BodyInit /\ [][BodyNext]_vars

\* No completion call is being read
ClientIdle ==
    /\ events = <<>> /\ body = NoBody /\ wire = <<>> /\ answer = <<>> /\ buffer = <<>>
    /\ partials = <<>> /\ chatPhase = "idle" /\ sawDone = FALSE /\ aligned = TRUE
    /\ twin = Fresh

----------------------------------------------------------------------------
(* The citation stream rewriter: push() and flush() *)

MAX_LOOKAHEAD == 36

MARKER_LENGTH == 12

Digits == <<"0", "1", "2", "3", "4", "5", "6", "7", "8", "9">>

IsDigit(c) == \E d \in 1..10 : Digits[d] = c

DigitValue(c) == (CHOOSE d \in 1..10 : Digits[d] = c) - 1

\* parseInt(number, 10)
RECURSIVE ParseInt(_)
ParseInt(ds) ==
    IF ds = <<>> THEN 0 ELSE 10 * ParseInt(SubSeq(ds, 1, Len(ds) - 1)) + DigitValue(ds[Len(ds)])

\* `${citation}`
RECURSIVE NumberToString(_)
NumberToString(n) == IF n < 10 THEN <<Digits[n + 1]>> ELSE NumberToString(n \div 10) \o <<Digits[(n % 10) + 1]>>

ESC == "\\x1b"

\* serve(): cite = (citation) => `[${citation}]`
\* interact(): cite = (citation) => `${GRAY}[${citation}]${NORMAL}`
Cite(kind, citation) ==
    IF kind = "http"
    THEN <<"[">> \o NumberToString(citation) \o <<"]">>
    ELSE <<ESC, "[", "9", "0", "m", "[">> \o NumberToString(citation) \o <<"]", ESC, "[", "0", "m">>

\* The i flag: the letters of "citation" in either case
Lower(c) ==
    CASE c = "C" -> "c" [] c = "I" -> "i" [] c = "T" -> "t" [] c = "A" -> "a"
      [] c = "O" -> "o" [] c = "N" -> "n" [] OTHER -> c

Word == <<"c", "i", "t", "a", "t", "i", "o", "n">>

\* The digits that start at position i of s (1-based), as many as there are
RECURSIVE DigitRun(_, _)
DigitRun(s, i) ==
    IF i <= Len(s) /\ IsDigit(s[i]) THEN <<s[i]>> \o DigitRun(s, i + 1) ELSE <<>>

\* /[\[\()]citation[:\s](\d+)[\]\)]/gi matches at position i of s (1-based)
MatchesAt(s, i) ==
    /\ i >= 1 /\ i + 11 <= Len(s)
    /\ s[i] \in {"[", "(", ")"}
    /\ \A k \in 1..8 : Lower(s[i + k]) = Word[k]
    /\ s[i + 9] \in {":", " ", NL}
    /\ LET run == DigitRun(s, i + 10)
       IN  /\ Len(run) >= 1
           /\ i + 10 + Len(run) <= Len(s)
           /\ s[i + 10 + Len(run)] \in {"]", ")"}

\* PATTERN.exec(buffer) with PATTERN.lastIndex = last: the 0-based index of the
\* first match at or after last, or -1
Exec(s, last) ==
    LET found == {i \in (last + 1)..Len(s) : MatchesAt(s, i)}
    IN  IF found = {} THEN -1 ELSE (CHOOSE i \in found : \A j \in found : i <= j) - 1

\* number >= '0' && number <= '9', a comparison of strings
SingleDigitTest(number) == Len(number) = 1 \/ number[1] # "9"

IndexOf(refs, num) ==
    IF \E k \in 1..Len(refs) : refs[k] = num
    THEN (CHOOSE k \in 1..Len(refs) : refs[k] = num /\ \A j \in 1..(k - 1) : refs[j] # num) - 1
    ELSE -1

\* buffer.substr(from) and buffer.substr(from, length), from 0-based
Substr(s, from, length) ==
    LET a == IF from > Len(s) THEN Len(s) ELSE from
        b == IF a + length > Len(s) THEN Len(s) ELSE a + length
    IN  SubSeq(s, a + 1, b)

SubstrFrom(s, from) == Substr(s, from, Len(s))

\* PATTERN.lastIndex after a match: the end of the match in the buffer that
\* was searched; the replacement of the buffer does not move it
NextIndex(index, matched, replacement) == index + matched

\* while ((match = PATTERN.exec(buffer)) !== null) { ... }
RECURSIVE Rewrite(_, _, _, _)
Rewrite(kind, buf, refs, last) ==
    LET index == Exec(buf, last)
    IN  IF index < 0 THEN [buffer |-> buf, refs |-> refs]
        ELSE LET number == DigitRun(buf, index + 11)
                 matched == 10 + Len(number) + 1
             IN  IF SingleDigitTest(number)
                 THEN LET num == ParseInt(number)
                          refs2 == IF IndexOf(refs, num) < 0 THEN Append(refs, num) ELSE refs
                          citation == 1 + IndexOf(refs2, num)
                          buf2 == Substr(buf, 0, index) \o Cite(kind, citation)
                                  \o SubstrFrom(buf, index + MARKER_LENGTH)
                      IN  Rewrite(kind, buf2, refs2,
                                  NextIndex(index, matched, Cite(kind, citation)))
                 ELSE Rewrite(kind, buf, refs, index + matched)

PushWithholdsAll(kind, d, chunk) ==
    [display |-> Rewrite(kind, d.buffer \o chunk, d.refs, 0), output |-> <<>>, prints |-> FALSE]

\* push(display, text): what it returns and what it prints (<<>>: no call)
PushResult(kind, d, chunk) ==
    LET r == Rewrite(kind, d.buffer \o chunk, d.refs, 0)
    IN  IF Len(r.buffer) > MAX_LOOKAHEAD
        THEN [display |-> [buffer |-> SubstrFrom(r.buffer, Len(r.buffer) - MAX_LOOKAHEAD),
                           refs |-> r.refs],
              output |-> Substr(r.buffer, 0, Len(r.buffer) - MAX_LOOKAHEAD),
              prints |-> TRUE]
        ELSE [display |-> r, output |-> <<>>, prints |-> FALSE]

Marker(open, sep, number, close) == <<open>> \o Word \o <<sep>> \o number \o <<close>>

M(number) == Marker("[", ":", number, "]")

\* "See [citation:2] and [citation:5] and [citation:2]."
Example ==
    <<"S", "e", "e", " ">> \o M(<<"2">>) \o <<" ", "a", "n", "d", " ">> \o M(<<"5">>)
    \o <<" ", "a", "n", "d", " ">> \o M(<<"2">>) \o <<".">>

Answers ==
    { Example,
      <<"a">> \o M(<<"1">>) \o M(<<"2">>) \o <<".">>,
      M(<<"1">>) \o M(<<"2">>) \o M(<<"3">>) \o <<".">>,
      <<"a", " ">> \o M(<<"3">>) \o <<".", " ", NL>>,
      <<"x">> \o M(<<"1", "2">>) \o <<" ", "y">> \o M(<<"9", "1">>) \o <<".">>,
      <<"n", "o", " ", "[", "c", "i", "t">> }

DisplayInit ==
    /\ PipeInit /\ ClientIdle /\ CodecIdle /\ SearchIdle
    /\ text \in Answers
    /\ pending = text
    /\ cite \in {"http", "terminal"}
    /\ display = [buffer |-> <<>>, refs |-> <<>>]
    /\ printed = <<>>
    /\ lastPrint = <<>>
    /\ refsOut = <<>>
    /\ dispPhase = "streaming"

\* stream = (text) => (display = push(display, text)): the next n characters
\* of the answer arrive
Push ==
    /\ dispPhase = "streaming"
    /\ pending # <<>>
    /\ \E n \in 1..Len(pending) :
        LET r == PushResult(cite, display, SubSeq(pending, 1, n))
        IN  /\ display' = r.display
            /\ printed' = printed \o r.output
            /\ lastPrint' = IF r.prints THEN r.output ELSE lastPrint
            /\ pending' = SubSeq(pending, n + 1, Len(pending))
    /\ UNCHANGED <<text, cite, refsOut, dispPhase>>
    /\ UNCHANGED notDisplay

\* const refs = display.refs.slice(); display = flush(display)
Flush ==
    /\ dispPhase = "streaming"
    /\ pending = <<>>
    /\ refsOut' = display.refs
    /\ printed' = printed \o TrimEnd(display.buffer)
    /\ lastPrint' = TrimEnd(display.buffer)
    /\ display' = [buffer |-> <<>>, refs |-> <<>>]
    /\ dispPhase' = "flushed"
    /\ UNCHANGED <<text, pending, cite>>
    /\ UNCHANGED notDisplay

DisplayNext == Push \/ Flush

SpecDisplay == DisplayInit /\ [][DisplayNext]_vars

----------------------------------------------------------------------------
(* The reference list that a surface prints after the answer *)

\* references[ref - 1] of a number that is no position of the list
Undefined == [position |-> 0, url |-> "", snippet |-> ""]

EntryAt(refList, ref) == IF ref \in 1..Len(refList) THEN refList[ref] ELSE Undefined

\* serve() and format() of index.js: const { url } = references[ref - 1]
Destructures(b, kind) == b = "index" /\ kind \in {"http", "telegram"}

\* serve(), format(): references.length >= refs.length
\* interact(): references.length > 0 && references.length >= refs.length
ShowsList(kind, refs, refList) ==
    IF kind = "terminal" THEN Len(refList) > 0 /\ Len(refList) >= Len(refs)
    ELSE Len(refList) >= Len(refs)

\* refs.forEach((ref, i) => { ... }) from the i-th number on
RECURSIVE ForEachRef(_, _, _, _, _, _)
ForEachRef(b, kind, refs, refList, i, lines) ==
    IF i > Len(refs) THEN [phase |-> "written", lines |-> lines]
    ELSE LET entry == EntryAt(refList, refs[i])
         IN  IF entry = Undefined
             THEN IF Destructures(b, kind) THEN [phase |-> "threw", lines |-> lines]
                  ELSE ForEachRef(b, kind, refs, refList, i + 1, lines)
             ELSE IF entry.url # ""
                  THEN ForEachRef(b, kind, refs, refList, i + 1,
                                  Append(lines, [ordinal |-> i, url |-> entry.url]))
                  ELSE ForEachRef(b, kind, refs, refList, i + 1, lines)

\* The lines `[${i + 1}] ${entry.url}` that are printed after the answer
ReferenceLines(b, kind, refs, refList) ==
    IF ShowsList(kind, refs, refList) THEN ForEachRef(b, kind, refs, refList, 1, <<>>)
    ELSE [phase |-> "skipped", lines |-> <<>>]

\* '[citation:'
MarkerStart == <<"[">> \o Word \o <<":">>

\* buffer.indexOf('[citation:'), searched from i
RECURSIVE IndexOfMarker(_, _)
IndexOfMarker(buf, i) ==
    IF i + Len(MarkerStart) > Len(buf) THEN -1
    ELSE IF SubSeq(buf, i + 1, i + Len(MarkerStart)) = MarkerStart THEN i
    ELSE IndexOfMarker(buf, i + 1)

\* format(): while (true) { ... }; the loop does not end when the character
\* after '[citation:' is no digit, as the buffer is then searched again as it is
RECURSIVE FormatLoop(_, _)
FormatLoop(buf, refs) ==
    LET index == IndexOfMarker(buf, 0)
    IN  IF index < 0 THEN [buffer |-> buf, refs |-> refs, ends |-> TRUE]
        ELSE IF index + 11 <= Len(buf) /\ IsDigit(buf[index + 11])
             THEN LET num == DigitValue(buf[index + 11])
                      refs2 == IF IndexOf(refs, num) < 0 THEN Append(refs, num) ELSE refs
                      citation == 1 + IndexOf(refs2, num)
                  IN  FormatLoop(Substr(buf, 0, index) \o Cite("http", citation)
                                 \o SubstrFrom(buf, index + 12), refs2)
             ELSE [buffer |-> buf, refs |-> refs, ends |-> FALSE]

\* "Jupiter is the largest planet [citation:1]."
Jupiter ==
    <<"J", "u", "p", "i", "t", "e", "r", " ", "i", "s", " ", "t", "h", "e", " ",
      "l", "a", "r", "g", "e", "s", "t", " ", "p", "l", "a", "n", "e", "t", " ">>
    \o M(<<"1">>) \o <<".">>

UrlOf == <<"u1", "u2", "u3">>

\* The references of a search that returned: 1 to TOP_K of them
KnownReferences ==
    {[i \in 1..n |-> [position |-> i, url |-> UrlOf[i], snippet |-> "c"]] : n \in 1..TOP_K}

\* The pipeline returned: the answer was streamed to the display (serve,
\* interact) or is about to be formatted (poll)
ListInit ==
    /\ build \in Builds
    /\ llmStreaming \in BOOLEAN
    /\ pc = "done"
    /\ stageIdx = Len(PipeOrder)
    /\ callNo = 1
    /\ trace = <<>>
    /\ attempt = MAX_RETRY_ATTEMPT
    /\ call = NoCall
    /\ sent = [s \in {"Reason", "Search", "Respond"} |-> 0]
    /\ keyphrases = "present"
    /\ references \in KnownReferences
    /\ error = ""
    /\ messages = <<>>
    /\ warned = FALSE
    /\ streamed = <<>>
    /\ ClientIdle /\ CodecIdle /\ SearchIdle /\ ListIdle /\ SurfaceIdle /\ ContextIdle
    /\ text \in Answers \cup {Jupiter}
    /\ pending = text
    /\ cite \in {"http", "terminal", "telegram"}
    /\ display = [buffer |-> <<>>, refs |-> <<>>]
    /\ printed = <<>>
    /\ lastPrint = <<>>
    /\ refsOut = <<>>
    /\ dispPhase = IF cite = "telegram" THEN "formatting" ELSE "streaming"

\* serve(), interact(): the lines that follow the answer
ListReferences ==
    /\ dispPhase = "flushed" /\ listPhase = "idle"
    /\ LET r == ReferenceLines(build, cite, refsOut, references)
       IN  listed' = r.lines /\ listPhase' = r.phase
    /\ UNCHANGED <<pipeVars, clientVars, displayVars, codecVars, searchVars, respondVars,
                   streamed, surfaceVars, contextVars>>

\* poll(): send(chat.id, format(answer, references))
FormatAnswer ==
    /\ dispPhase = "formatting"
    /\ LET f == FormatLoop(text, <<>>)
           r == ReferenceLines(build, cite, f.refs, references)
       IN  IF f.ends
           THEN /\ refsOut' = f.refs
                /\ printed' = IF r.phase = "threw" THEN <<>> ELSE f.buffer
                /\ lastPrint' = printed'
                /\ listed' = IF r.phase = "threw" THEN <<>> ELSE r.lines
                /\ listPhase' = r.phase
                /\ dispPhase' = "flushed"
           ELSE /\ dispPhase' = "looping"
                /\ UNCHANGED <<refsOut, printed, lastPrint, listed, listPhase>>
    /\ pending' = <<>>
    /\ UNCHANGED <<text, cite, display>>
    /\ UNCHANGED <<pipeVars, clientVars, codecVars, searchVars, respondVars, streamed,
                   surfaceVars, contextVars>>

ListNext == Push \/ Flush \/ ListReferences \/ FormatAnswer

SpecList == ListInit /\ [][ListNext]_vars

\* speak(): while (true) { ... }, which takes the markers out of the text that
\* is spoken; as in format(), the loop does not end when the character after
\* '[citation:' is no digit
RECURSIVE SpeakLoop(_)
SpeakLoop(buf) ==
    LET index == IndexOfMarker(buf, 0)
    IN  IF index < 0 THEN [buffer |-> buf, ends |-> TRUE]
        ELSE IF index + 11 <= Len(buf) /\ IsDigit(buf[index + 11])
             THEN SpeakLoop(Substr(buf, 0, index) \o SubstrFrom(buf, index + 12))
             ELSE [buffer |-> buf, ends |-> FALSE]

\* Answers with text that begins like a marker and is none
Malformed ==
    { <<"a", " ">> \o MarkerStart \o <<"x", "]", ".">>,
      <<"a", " ">> \o MarkerStart,
      <<"a", " ">> \o MarkerStart \o <<"]">>,
      M(<<"1">>) \o <<" ">> \o MarkerStart \o <<" ", "2", "]">> }

\* An answer is about to be spoken (interact) or formatted (poll)
LoopsInit ==
    /\ build \in Builds
    /\ llmStreaming \in BOOLEAN
    /\ pc = "done"
    /\ stageIdx = Len(PipeOrder)
    /\ callNo = 1
    /\ trace = <<>>
    /\ attempt = MAX_RETRY_ATTEMPT
    /\ call = NoCall
    /\ sent = [s \in {"Reason", "Search", "Respond"} |-> 0]
    /\ keyphrases = "present"
    /\ references \in KnownReferences
    /\ error = ""
    /\ messages = <<>>
    /\ warned = FALSE
    /\ streamed = <<>>
    /\ ClientIdle /\ CodecIdle /\ SearchIdle /\ ListIdle /\ SurfaceIdle /\ ContextIdle
    /\ text \in Answers \cup Malformed \cup {Jupiter}
    /\ pending = text
    /\ cite \in {"terminal", "telegram"}
    /\ display = [buffer |-> <<>>, refs |-> <<>>]
    /\ printed = <<>>
    /\ lastPrint = <<>>
    /\ refsOut = <<>>
    /\ dispPhase = IF cite = "telegram" THEN "formatting" ELSE "speaking"

\* interact(): const tts = speak(answer, ...), with a voice model configured;
\* printed: the text that is handed to the voice
Speak ==
    /\ dispPhase = "speaking"
    /\ LET r == SpeakLoop(text)
       IN  IF r.ends
           THEN /\ printed' = r.buffer
                /\ lastPrint' = r.buffer
                /\ dispPhase' = "spoken"
           ELSE /\ dispPhase' = "looping"
                /\ UNCHANGED <<printed, lastPrint>>
    /\ pending' = <<>>
    /\ UNCHANGED <<text, cite, display, refsOut, listed, listPhase>>
    /\ UNCHANGED <<pipeVars, clientVars, codecVars, searchVars, respondVars, streamed,
                   surfaceVars, contextVars>>

LoopsNext == Speak \/ FormatAnswer

SpecLoops == LoopsInit /\ [][LoopsNext]_vars

----------------------------------------------------------------------------
(* The surfaces: interact(), serve(), poll() and evaluate(), one conversation *)

Surfaces == {"terminal", "http", "telegram", "evaluate"}

\* What a user sends: an inquiry, or one of the two commands
Inquiries == {"ask", "/reset", "/review"}

InterceptsNothing(sfc) == FALSE

\* interact(), serve() and poll() test the inquiry for /reset and /review;
\* evaluate() hands every 'User:' line to the pipeline
Intercepts(sfc) == sfc \in {"terminal", "http", "telegram"}

\* interact() asks the next question after `await answer(inquiry)`, evaluate()
\* awaits handle(line) in a loop; serve() and poll() start a handler for every
\* request and every update
OneAtATime(sfc) == sfc \in {"terminal", "evaluate"}

\* poll(): const history = state[chat.id] || [], a constant of the handler;
\* the other surfaces have one variable `let history` that every handler reads
\* when it uses it
HistoryIsLocal(sfc) == sfc = "telegram"

\* The texts a completion returns as the answer
Replies == {Jupiter, Example}

\* What the user is shown of an answer, and the cited numbers: the stream
\* rewriter (serve, interact), format (poll), nothing (evaluate)
Shown(sfc, reply) ==
    IF sfc \in {"http", "terminal"}
    THEN LET r == PushResult(sfc, [buffer |-> <<>>, refs |-> <<>>], reply)
         IN  [text |-> r.output \o TrimEnd(r.display.buffer), refs |-> r.display.refs,
              ends |-> TRUE]
    ELSE IF sfc = "telegram"
    THEN LET f == FormatLoop(reply, <<>>)
         IN  [text |-> f.buffer, refs |-> f.refs, ends |-> f.ends]
    ELSE [text |-> <<>>, refs |-> <<>>, ends |-> TRUE]

StoredShown(reply, shown) == shown

\* history.push({ inquiry, ..., answer, ... }): the answer of the pipeline's result
Stored(reply, shown) == reply

PushesAlways(outcome) == TRUE

\* history.push(...) stands after `await pipeline(context)`
Pushes(outcome) == outcome = "returned"

\* The array that a handler pushes to
Target(sfc, job) == IF HistoryIsLocal(sfc) THEN job.hist ELSE slot

Job(kind, hist, phase, out, ended) ==
    [kind |-> kind, hist |-> hist, phase |-> phase, out |-> out, ended |-> ended,
     piped |-> "none", reply |-> <<>>, shown |-> <<>>]

SurfaceInit ==
    /\ build \in Builds
    /\ llmStreaming \in BOOLEAN
    /\ pc = "ready"
    /\ stageIdx = 1
    /\ callNo = 1
    /\ trace = <<>>
    /\ attempt = MAX_RETRY_ATTEMPT
    /\ call = NoCall
    /\ sent = [s \in {"Reason", "Search", "Respond"} |-> 0]
    /\ keyphrases = "absent"
    /\ references = <<>>
    /\ error = ""
    /\ messages = <<>>
    /\ warned = FALSE
    /\ streamed = <<>>
    /\ ClientIdle /\ DisplayIdle /\ CodecIdle /\ SearchIdle /\ ListIdle /\ ContextIdle
    /\ surface \in Surfaces
    \* let history = [] (poll: let state = {})
    /\ heap = IF surface = "telegram" THEN <<>> ELSE << <<>> >>
    /\ slot = IF surface = "telegram" THEN 0 ELSE 1
    /\ jobs = <<>>
    /\ alive = TRUE

\* An inquiry arrives and its handler runs until it awaits the pipeline, or,
\* for a command, to its end
Arrive ==
    /\ alive
    /\ Len(jobs) < MaxJobs
    /\ OneAtATime(surface) => \A j \in 1..Len(jobs) : jobs[j].phase # "piping"
    /\ \E kind \in Inquiries :
        LET fresh == surface = "telegram" /\ slot = 0
            heap1 == IF fresh THEN Append(heap, <<>>) ELSE heap
            hist == IF fresh THEN Len(heap1) ELSE slot
        IN  IF Intercepts(surface) /\ kind = "/reset"
            THEN /\ heap' = Append(heap1, <<>>)
                 /\ slot' = Len(heap1) + 1
                 /\ jobs' = Append(jobs, Job(kind, hist, "handled", "cleared", TRUE))
            ELSE IF Intercepts(surface) /\ kind = "/review"
            THEN /\ heap' = heap1
                 /\ slot' = slot
                 /\ jobs' = Append(jobs, Job(kind, hist, "handled",
                                             IF heap1[hist] = <<>> THEN "nothing" ELSE "review",
                                             TRUE))
            ELSE /\ heap' = heap1
                 /\ slot' = slot
                 /\ jobs' = Append(jobs, Job(kind, hist, "piping", "none", FALSE))
    /\ UNCHANGED <<surface, alive>>
    /\ UNCHANGED <<pipeVars, clientVars, displayVars, codecVars, searchVars, respondVars,
                   streamed, listVars, contextVars>>

\* The pipeline of a handler returns: the rest of the handler runs
Return(j) ==
    /\ alive
    /\ jobs[j].phase = "piping"
    /\ \E reply \in Replies, refList \in KnownReferences :
      \E shown \in {Shown(surface, reply)} :
        LET list == IF surface = "evaluate" THEN [phase |-> "skipped", lines |-> <<>>]
                    ELSE ReferenceLines(build, surface, shown.refs, refList)
            \* serve(): the list is written before history.push;
            \* poll(): history.push stands before send(format(...))
            pushed == Pushes("returned") /\ (list.phase # "threw" \/ surface = "telegram")
            to == Target(surface, jobs[j])
            entry == [job |-> j, answer |-> Stored(reply, shown.text)]
        IN  /\ heap' = IF pushed THEN [heap EXCEPT ![to] = Append(@, entry)] ELSE heap
            /\ slot' = IF pushed /\ HistoryIsLocal(surface) THEN jobs[j].hist ELSE slot
            /\ jobs' = [jobs EXCEPT ![j] =
                          [@ EXCEPT !.phase = IF pushed THEN "answered" ELSE "threw",
                                    !.out = IF list.phase = "threw" /\ surface = "telegram"
                                            THEN "none" ELSE "answer",
                                    !.ended = list.phase # "threw" /\ shown.ends,
                                    !.piped = "returned",
                                    !.reply = reply,
                                    !.shown = shown.text]]
            \* a handler that throws is an unhandled rejection, which ends the
            \* process or not, as the runtime is set up; a format() that does not
            \* end keeps the process busy for good
            /\ IF ~shown.ends THEN alive' = FALSE
               ELSE IF list.phase = "threw" THEN alive' \in BOOLEAN
               ELSE alive' = alive
    /\ UNCHANGED surface
    /\ UNCHANGED <<pipeVars, clientVars, displayVars, codecVars, searchVars, respondVars,
                   streamed, listVars, contextVars>>

\* The pipeline of a handler throws
Throw(j) ==
    /\ alive
    /\ jobs[j].phase = "piping"
    /\ LET to == Target(surface, jobs[j])
           entry == [job |-> j, answer |-> <<>>]
       IN  heap' = IF Pushes("threw") THEN [heap EXCEPT ![to] = Append(@, entry)] ELSE heap
    /\ slot' = slot
    /\ IF surface = "evaluate"
       THEN \* catch (e) { console.error('ERROR:', e.toString()); process.exit(-1) }
            /\ jobs' = [jobs EXCEPT ![j] = [@ EXCEPT !.phase = "threw", !.piped = "threw",
                                                      !.out = "error", !.ended = TRUE]]
            /\ alive' = FALSE
       ELSE \* no try around `await pipeline(context)`: an unhandled rejection
            /\ jobs' = [jobs EXCEPT ![j] = [@ EXCEPT !.phase = "threw", !.piped = "threw"]]
            /\ alive' \in BOOLEAN
    /\ UNCHANGED surface
    /\ UNCHANGED <<pipeVars, clientVars, displayVars, codecVars, searchVars, respondVars,
                   streamed, listVars, contextVars>>

SurfaceNext ==
    \/ Arrive
    \/ \E j \in 1..Len(jobs) : Return(j)
    \/ \E j \in 1..Len(jobs) : Throw(j)

SpecSurface == SurfaceInit /\ [][SurfaceNext]_vars

\* A pipeline that was started returns or throws in the end
SpecSurfaceLive ==
    /\ SurfaceInit /\ [][SurfaceNext]_vars
    /\ WF_vars(\E j \in 1..Len(jobs) : Throw(j) \/ Return(j))

----------------------------------------------------------------------------
(* The context that reason(), search() and respond() hand on *)

\* { ...a, ...b }: the fields of both, those of b where both have one
Spread(a, b) ==
    [f \in DOMAIN a \cup DOMAIN b |-> IF f \in DOMAIN b THEN b[f] ELSE a[f]]

ProducesInquiry(stage) == {"inquiry"}

\* The fields that a stage adds to the context
Produces(stage) ==
    IF stage = "Reason" THEN {"language", "topic", "thought", "keyphrases", "observation"}
    ELSE IF stage = "Search" THEN {"references"}
    ELSE {"answer"}

\* The values a stage may come up with for its fields (undefined: the
\* completion did not have the field)
Outputs(stage) == [Produces(stage) -> {"found", "undefined"}]

\* What a stage returns for a context and the fields it made:
\*   reason():  { language, topic, thought, keyphrases, observation, ...context }
\*   search():  { ...context, references }
\*   respond(): { answer, ...context }
Returned(stage, ctx, made) ==
    IF stage = "Search" THEN Spread(ctx, made) ELSE Spread(made, ctx)

\* The histories a surface has when an inquiry comes: earlier turns, by number
Histories == {<<>>, <<1>>, <<1, 2>>}

\* const context = { inquiry, history, delegates }
ContextInit ==
    /\ PipeStart
    /\ ClientIdle /\ DisplayIdle /\ CodecIdle /\ SearchIdle /\ ListIdle /\ SurfaceIdle
    /\ \E h \in Histories, q \in {"q1", "q2"} :
          /\ given = [f \in {"inquiry", "history", "delegates"} |->
                        IF f = "inquiry" THEN q ELSE IF f = "history" THEN "array" ELSE "delegates"]
          /\ array = h
    /\ context = given
    /\ ctxAt = 0
    /\ histories = <<>> /\ asked = NoParts

\* A stage returns: history.slice(-3) and history.slice(-2) copy what they
\* read, and the context that was given is spread into a new object
StageReturns ==
    /\ ctxAt < Len(PipeOrder)
    /\ \E made \in Outputs(PipeOrder[ctxAt + 1]) :
          context' = Returned(PipeOrder[ctxAt + 1], context, made)
    /\ ctxAt' = ctxAt + 1
    /\ UNCHANGED <<given, array, histories, asked>>
    /\ UNCHANGED <<pipeVars, clientVars, displayVars, codecVars, searchVars, respondVars,
                   streamed, listVars, surfaceVars>>

ContextNext == StageReturns

SpecContext == ContextInit /\ [][ContextNext]_vars

\* The requests of reason() and respond() and the history.  A turn of the
\* history is a name: equal names are turns with equal fields.

RelevantAll(history, n) == history

\* history.slice(-n)
Relevant(history, n) ==
    SubSeq(history, IF Len(history) > n THEN Len(history) - n + 1 ELSE 1, Len(history))

\* reason(): the message list of the first completion call.  gamal.js writes
\* inquiry and answer of the relevant turns into the system prompt; index.js
\* adds the example when there is no relevant turn and pushes a user and an
\* assistant message for every relevant turn
ReasonMessages(b, history) ==
    LET relevant == Relevant(history, 3)
    IN  IF b = "gamal"
        THEN <<Message("system", <<"REASON_PROMPT">> \o relevant),
               Message("user", <<"inquiry">>), Message("assistant", <<"hint">>)>>
        ELSE <<Message("system", IF Len(relevant) = 0 THEN <<"REASON_PROMPT", "REASON_EXAMPLE">>
                                 ELSE <<"REASON_PROMPT">>)>>
             \o [i \in 1..(2 * Len(relevant)) |->
                    Message(IF i % 2 = 1 THEN "user" ELSE "assistant", <<relevant[(i + 1) \div 2]>>)]
             \o <<Message("user", <<"inquiry">>), Message("assistant", <<"hint">>)>>

\* respond(): the message list of the completion call.  gamal.js writes the
\* relevant turns into the system prompt when there are references; index.js
\* does not read the history
RespondRequest(b, history, refs) ==
    IF Len(refs) > 0
    THEN <<Message("system", <<"RESPOND_PROMPT">>
                             \o (IF b = "gamal" THEN Relevant(history, 2) ELSE <<>>)),
           Message("user", <<"inquiry">>)>>
    ELSE IF b = "gamal" THEN <<Message("user", <<"inquiry">>)>> ELSE <<>>

\* The histories of the model: up to MaxHistory turns
TurnHistories == SeqsUpTo({"t1", "t2"}, MaxHistory)

\* Two invocations with the same inquiry and two histories
PromptsInit ==
    /\ PipeStart
    /\ ClientIdle /\ DisplayIdle /\ CodecIdle /\ SearchIdle /\ ListIdle /\ SurfaceIdle
    /\ given = NoParts /\ context = NoParts /\ array = <<>> /\ ctxAt = 0
    /\ histories \in TurnHistories \X TurnHistories
    /\ asked = NoParts

\* Both invocations run reason() up to its first completion call
ReasonAsks ==
    /\ "Reason" \notin DOMAIN asked
    /\ asked' = Put(asked, "Reason", <<ReasonMessages(build, histories[1]),
                                        ReasonMessages(build, histories[2])>>)
    /\ UNCHANGED <<given, context, array, ctxAt, histories>>
    /\ UNCHANGED <<pipeVars, clientVars, displayVars, codecVars, searchVars, respondVars,
                   streamed, listVars, surfaceVars>>

\* Both invocations run respond() up to its completion call, with the same
\* references
RespondAsks ==
    /\ "Reason" \in DOMAIN asked /\ "Respond" \notin DOMAIN asked
    /\ \E refs \in {<<>>} \cup KnownReferences :
          asked' = Put(asked, "Respond", <<RespondRequest(build, histories[1], refs),
                                            RespondRequest(build, histories[2], refs)>>)
    /\ UNCHANGED <<given, context, array, ctxAt, histories>>
    /\ UNCHANGED <<pipeVars, clientVars, displayVars, codecVars, searchVars, respondVars,
                   streamed, listVars, surfaceVars>>

PromptsNext == ReasonAsks \/ RespondAsks

SpecPrompts == PromptsInit /\ [][PromptsNext]_vars

----------------------------------------------------------------------------
(* The structured-record codec: construct() and deconstruct() *)

\* A text is a sequence of pieces: a key followed by its colon is one piece,
\* the other pieces are single characters.

\* PREDEFINED_KEYS, as the names the decoded pairs are stored under
Keys(b) ==
    IF b = "gamal"
    THEN <<"inquiry", "tool", "language", "thought", "keyphrases", "observation", "answer", "topic">>
    ELSE <<"inquiry", "tool", "language", "thought", "keyphrases", "observation", "topic">>

LowerCase ==
    [inquiry |-> "inquiry:", tool |-> "tool:", language |-> "language:", thought |-> "thought:",
     keyphrases |-> "keyphrases:", observation |-> "observation:", answer |-> "answer:",
     topic |-> "topic:"]

UpperCase ==
    [inquiry |-> "INQUIRY:", tool |-> "TOOL:", language |-> "LANGUAGE:", thought |-> "THOUGHT:",
     keyphrases |-> "KEYPHRASES:", observation |-> "OBSERVATION:", answer |-> "ANSWER:",
     topic |-> "TOPIC:"]

\* marker + ':' as deconstruct() looks for it: gamal.js has the keys in lower
\* case, index.js in upper case
KeyColon(b, key) == IF b = "gamal" THEN LowerCase[key] ELSE UpperCase[key]

\* str.lastIndexOf(piece), 1-based, 0 when there is none
LastIndexOf(str, piece) ==
    LET at == {i \in 1..Len(str) : str[i] = piece}
    IN  IF at = {} THEN 0 ELSE CHOOSE i \in at : \A j \in at : j <= i

\* substr.split('\n').shift()
RECURSIVE FirstLine(_)
FirstLine(str) ==
    IF str = <<>> \/ Head(str) = NL THEN <<>> ELSE <<Head(str)>> \o FirstLine(Tail(str))

\* for (let i = 0; i < keys.length; ++i) { ... }, keys being the markers
\* reversed: n runs from the last key down to the first
RECURSIVE DeconstructLoop(_, _, _, _)
DeconstructLoop(b, str, n, parts) ==
    IF n = 0 THEN parts
    ELSE LET key == Keys(b)[n]
             pos == LastIndexOf(str, KeyColon(b, key))
         IN  IF pos > 0
             THEN DeconstructLoop(b, SubSeq(str, 1, pos - 1), n - 1,
                                  Put(parts, key, FirstLine(Trim(SubSeq(str, pos + 1, Len(str))))))
             ELSE DeconstructLoop(b, str, n - 1, parts)

\* const deconstruct = (text, markers = PREDEFINED_KEYS) => ...
Deconstruct(b, str) ==
    LET anchor == Keys(b)[Len(Keys(b))]
        start == LastIndexOf(str, KeyColon(b, anchor))
    IN  IF start > 0
        THEN DeconstructLoop(b, SubSeq(str, 1, start - 1), Len(Keys(b)),
                             Put(NoParts, anchor, Trim(SubSeq(str, start + 1, Len(str)))))
        ELSE NoParts

\* PREDEFINED_KEYS.filter((key) => kv[key]).map(...).join('\n'), from key n on
RECURSIVE ConstructFrom(_, _, _)
ConstructFrom(b, kv, n) ==
    IF n > Len(Keys(b)) THEN <<>>
    ELSE LET key == Keys(b)[n]
             rest == ConstructFrom(b, kv, n + 1)
         IN  IF key \in DOMAIN kv /\ kv[key] # <<>>
             THEN <<KeyColon(b, key), " ">> \o kv[key]
                  \o (IF \E m \in (n + 1)..Len(Keys(b)) :
                            Keys(b)[m] \in DOMAIN kv /\ kv[Keys(b)[m]] # <<>>
                      THEN <<NL>> ELSE <<>>)
                  \o rest
             ELSE rest

\* const construct = (kv) => ... (the line encoding)
Construct(b, kv) == ConstructFrom(b, kv, 1)

\* The values of the records that are encoded
Values(b) == {<<"x">>, <<"x", KeyColon(b, "thought"), "y">>, <<"x", NL, "y">>, <<" ", "x">>}

KeySet(b) == {Keys(b)[n] : n \in 1..Len(Keys(b))}

\* The records that are encoded: any of the keys may be missing
Records(b) == UNION {[present -> Values(b)] : present \in SUBSET KeySet(b)}

CodecInit ==
    /\ PipeInit /\ ClientIdle /\ DisplayIdle /\ SearchIdle
    /\ record \in Records(build)
    /\ encoded = <<>>
    /\ decoded = NoParts
    /\ hint = <<>>
    /\ codecPhase = "record"

\* text = construct(kv)
Encode ==
    /\ codecPhase = "record"
    /\ encoded' = Construct(build, record)
    /\ codecPhase' = "text"
    /\ UNCHANGED <<record, decoded, hint>>
    /\ UNCHANGED notCodec

\* parts = deconstruct(text)
Decode ==
    /\ codecPhase = "text"
    /\ decoded' = Deconstruct(build, encoded)
    /\ codecPhase' = "decoded"
    /\ UNCHANGED <<record, encoded, hint>>
    /\ UNCHANGED notCodec

CodecNext == Encode \/ Decode

SpecCodec == CodecInit /\ [][CodecNext]_vars

----------------------------------------------------------------------------
(* Decoding a completion: unJSON() and breakdown() *)

QUOTE == "\""

\* The pieces of a JSON text: the braces, the quote, characters of a string,
\* and a member's name with its quotes and colon.  The texts of the model hold
\* objects of one member at most.
KeyphrasesName == "\"keyphrases\":"

JsonChars == {"x"}

JsonPieces == {"{", "}", QUOTE, KeyphrasesName} \cup JsonChars

\* The position of the quote that closes the string whose characters start at
\* position i, 0 when the string is not closed
RECURSIVE StringEnd(_, _)
StringEnd(str, i) ==
    IF i > Len(str) THEN 0
    ELSE IF str[i] = QUOTE THEN i
    ELSE IF str[i] \in JsonChars THEN StringEnd(str, i + 1)
    ELSE 0

\* JSON.parse(text): whether it returns, and the object it returns
JsonParse(str) ==
    IF str = <<"{", "}">>
    THEN [ok |-> TRUE, value |-> NoParts]
    ELSE IF /\ Len(str) >= 5
            /\ str[1] = "{" /\ str[2] = KeyphrasesName /\ str[3] = QUOTE
            /\ StringEnd(str, 4) = Len(str) - 1
            /\ str[Len(str)] = "}"
         THEN [ok |-> TRUE, value |-> Put(NoParts, "keyphrases", SubSeq(str, 4, Len(str) - 2))]
         ELSE [ok |-> FALSE, value |-> NoParts]

UnJSONOnce(str) == IF JsonParse(str).ok THEN JsonParse(str).value ELSE NoParts

\* const unJSON = (text) => ...
UnJSON(str) ==
    IF JsonParse(str).ok THEN JsonParse(str).value
    ELSE IF JsonParse(str \o <<"}">>).ok THEN JsonParse(str \o <<"}">>).value
    ELSE IF JsonParse(str \o <<QUOTE, "}">>).ok THEN JsonParse(str \o <<QUOTE, "}">>).value
    ELSE NoParts

\* The pieces of a completion in lines
LinePieces(b) ==
    {KeyColon(b, "thought"), KeyColon(b, "keyphrases"), KeyColon(b, "topic"), "x", NL}

\* The texts a completion call returns
Completions(b) == SeqsUpTo(LinePieces(b), MaxCompletion) \cup SeqsUpTo(JsonPieces, MaxJson)

\* reason(): const hint = schema ? '' : ['tool: Google', 'language: '].join('\n')
\* (index.js: ['TOOL: Google.', 'LANGUAGE: '].join('\n'))
Hints(b) ==
    IF b = "gamal"
    THEN {<<>>, <<KeyColon(b, "tool"), " ", "Google", NL, KeyColon(b, "language"), " ">>}
    ELSE {<<KeyColon(b, "tool"), " ", "Google.", NL, KeyColon(b, "language"), " ">>}

\* '\n' + 'TOPIC: general knowledge.'
SyntheticTopic == <<NL, UpperCase["topic"], " ", "general knowledge.">>

\* str.replace(piece, ''): the first occurrence is removed
RECURSIVE RemoveFirst(_, _)
RemoveFirst(str, piece) ==
    IF str = <<>> THEN <<>>
    ELSE IF Head(str) = piece THEN Tail(str)
    ELSE <<Head(str)>> \o RemoveFirst(Tail(str), piece)

\* str.replace(/^assistant/, '')
RemoveLeading(str, piece) == IF str # <<>> /\ Head(str) = piece THEN Tail(str) ELSE str

\* breakdown(): const text = remark.startsWith(hint) ? remark : hint + remark
BreakdownText(h, completion) ==
    LET remark == Trim(RemoveLeading(RemoveFirst(RemoveFirst(completion,
                          "<|start_header_id|>"), "<|end_header_id|>"), "assistant"))
    IN  IF IsPrefix(h, remark) THEN remark ELSE h \o remark

\* const breakdown = (hint, completion) => ...
\* gamal.js hands a text that starts with '{' to unJSON(); index.js has no
\* such branch
Breakdown(b, h, completion) ==
    LET str == BreakdownText(h, completion)
        result == Deconstruct(b, str)
    IN  IF b = "gamal" /\ str # <<>> /\ Head(str) = "{"
        THEN UnJSON(str)
        ELSE IF "topic" \notin DOMAIN result \/ Len(result["topic"]) = 0
             THEN Deconstruct(b, str \o SyntheticTopic)
             ELSE result

\* A text is about to be decoded by deconstruct() or by unJSON()
DecodeInit ==
    /\ PipeInit /\ ClientIdle /\ DisplayIdle /\ SearchIdle
    /\ record = NoParts
    /\ encoded \in Completions(build)
    /\ decoded = NoParts
    /\ hint = <<>>
    /\ codecPhase = "text"

\* parts = unJSON(text)
UnJson ==
    /\ codecPhase = "text"
    /\ decoded' = UnJSON(encoded)
    /\ codecPhase' = "parsed"
    /\ UNCHANGED <<record, encoded, hint>>
    /\ UNCHANGED notCodec

DecodeNext == Decode \/ UnJson

SpecDecode == DecodeInit /\ [][DecodeNext]_vars

\* A completion is about to be broken down
BreakdownInit ==
    /\ PipeInit /\ ClientIdle /\ DisplayIdle /\ SearchIdle
    /\ record = NoParts
    /\ encoded \in Completions(build)
    /\ decoded = NoParts
    /\ hint \in Hints(build)
    /\ codecPhase = "completion"

\* let result = breakdown(hint, completion)
BreakdownStep ==
    /\ codecPhase = "completion"
    /\ decoded' = Breakdown(build, hint, encoded)
    /\ codecPhase' = "brokendown"
    /\ UNCHANGED <<record, encoded, hint>>
    /\ UNCHANGED notCodec

BreakdownNext == BreakdownStep

SpecBreakdown == BreakdownInit /\ [][BreakdownNext]_vars

\* 'THOUGHT: ' + result.thought
ThoughtText(result) ==
    IF "thought" \in DOMAIN result THEN result["thought"] ELSE <<"undefined">>

\* reason(): ['TOOL: Google.', 'THOUGHT: ' + result.thought, 'KEYPHRASES: '].join('\n')
RepairHint(result) ==
    <<UpperCase["tool"], " ", "Google.", NL, UpperCase["thought"], " ">> \o ThoughtText(result)
    \o <<NL, UpperCase["keyphrases"], " ">>

\* The hint that `hint` names at the second breakdown(hint, completion).
\* gamal.js declares the repair hint inside the block of `if (!schema)` and
\* calls breakdown() after that block, where `hint` is the first hint;
\* index.js declares it in the block that holds the call
HintInScope(b, first, repair) == IF b = "gamal" THEN first ELSE repair

\* The keyphrases that a repair completion supplies, and what may follow them
KeyphraseTexts == {<<"x">>, <<"x", "x">>, <<"x", " ", "x">>, <<" ", "x">>}

RepairCompletions(b) ==
    {k \o t : k \in KeyphraseTexts, t \in {<<>>, <<NL, KeyColon(b, "topic"), " ", "x">>}}

\* The first decoding found no keyphrases: the repair completion has arrived
RepairInit ==
    /\ PipeInit /\ ClientIdle /\ DisplayIdle /\ SearchIdle
    /\ record \in {NoParts, Put(NoParts, "thought", <<"y">>),
                   Put(NoParts, "thought", <<"y", " ", "y">>)}
    /\ encoded \in RepairCompletions(build)
    /\ decoded = NoParts
    /\ hint \in Hints(build)
    /\ codecPhase = "repairing"

\* result = breakdown(hint, completion), in the branch of the repair
RepairStep ==
    /\ codecPhase = "repairing"
    /\ decoded' = Breakdown(build, HintInScope(build, hint, RepairHint(record)), encoded)
    /\ codecPhase' = "repaired"
    /\ UNCHANGED <<record, encoded, hint>>
    /\ UNCHANGED notCodec

RepairNext == RepairStep

SpecRepair == RepairInit /\ [][RepairNext]_vars

----------------------------------------------------------------------------
(* searxng(): from the results of the backend to the references *)

\* A result as the backend ranks it: two urls tell the results apart
RankedEntries == [url : {"", "u", "v"}, content : {"", "c"}]

RankedLists == SeqsUpTo(RankedEntries, MaxRanked)

\* The response of the search backend was read
ShapeInit ==
    /\ PipeInit /\ ClientIdle /\ DisplayIdle /\ CodecIdle
    /\ results \in RankedLists
    /\ shaped = "raw"

\* searxng(): filter, slice, map and return { url, references }
ShapeReturn ==
    /\ shaped = "raw"
    /\ Len(MakeReferences(build, results)) > 0
    /\ references' = MakeReferences(build, results)
    /\ shaped' = "returned"
    /\ UNCHANGED <<build, llmStreaming, pc, stageIdx, callNo, trace, attempt, call, sent,
                   keyphrases, error>>
    /\ UNCHANGED results
    /\ UNCHANGED <<clientVars, displayVars, codecVars, respondVars, streamed, laterVars>>

\* searxng(): throw new EvalError('SearXNG failed, giving no result')
ShapeThrow ==
    /\ shaped = "raw"
    /\ Len(MakeReferences(build, results)) <= 0
    /\ error' = "EvalError"
    /\ shaped' = "threw"
    /\ UNCHANGED <<build, llmStreaming, pc, stageIdx, callNo, trace, attempt, call, sent,
                   keyphrases, references>>
    /\ UNCHANGED results
    /\ UNCHANGED <<clientVars, displayVars, codecVars, respondVars, streamed, laterVars>>

ShapeNext == ShapeReturn \/ ShapeThrow

SpecShape == ShapeInit /\ [][ShapeNext]_vars

PipeNext ==
    \/ ReasonEnter \/ ChatOk \/ ChatHttp \/ ChatFault \/ ChatDeadline \/ Wake
    \/ ReasonResume \/ SearchEnter \/ SearchResults \/ SearchHttp \/ SearchFault
    \/ SearchDeadline \/ SearchResume \/ RespondEnter \/ RespondResume

\* respond(context) is called with a context that has the inquiry and any
\* list of references, the empty one included
RespondInit ==
    /\ build \in Builds
    /\ llmStreaming \in BOOLEAN
    /\ pc = "ready"
    /\ stageIdx = Len(PipeOrder)
    /\ callNo = 1
    /\ trace = <<>>
    /\ attempt = MAX_RETRY_ATTEMPT
    /\ call = NoCall
    /\ sent = [s \in {"Reason", "Search", "Respond"} |-> 0]
    /\ keyphrases = "present"
    /\ references \in {MakeReferences(build, rs) : rs \in ResultLists}
    /\ error = ""
    /\ messages = <<>>
    /\ warned = FALSE
    /\ streamed = <<>>
    /\ ListIdle /\ SurfaceIdle /\ ContextIdle
    /\ ClientIdle /\ DisplayIdle /\ CodecIdle /\ SearchIdle

RespondNext ==
    \/ RespondEnter \/ ChatOk \/ ChatHttp \/ ChatFault \/ ChatDeadline \/ Wake
    \/ RespondResume

SpecRespond == RespondInit /\ [][RespondNext]_vars

Init == PipeInit /\ ClientIdle /\ DisplayIdle /\ CodecIdle /\ SearchIdle

Next == PipeNext

Spec == Init /\ [][Next]_vars

----------------------------------------------------------------------------
(* Claims about the pipeline and the retry policy (specification Spec) *)

Finished == pc \in {"done", "failed"}

CanonicalTrace ==
    << <<"enter", "Reason">>, <<"leave", "Reason">>,
       <<"enter", "Search">>, <<"leave", "Search">>,
       <<"enter", "Respond">>, <<"leave", "Respond">> >>

\* The requests and the delays of a call's log
Requests(log) == SelectSeq(log, LAMBDA e : e.op = "request")
Delays(log) == SelectSeq(log, LAMBDA e : e.op = "sleep")

ThreeRequests(m) == <<Request(m), Sleep(1500), Request(m), Sleep(3000), Request(m)>>

\* C1: the enter/leave calls of one invocation are at every moment a prefix of
\* enter(Reason), leave(Reason), enter(Search), leave(Search), enter(Respond),
\* leave(Respond); when a stage fails it is the stage entered last, it is never
\* left, nothing runs after it and the invocation carries a stage's error.
C1_StagesInOrder ==
    /\ IsPrefix(trace, CanonicalTrace)
    /\ pc = "done" => trace = CanonicalTrace
    /\ pc = "failed" =>
          /\ trace # <<>>
          /\ Last(trace)[1] = "enter"
          /\ error # ""
          /\ call.status = "threw" => error = call.error
          /\ ~ENABLED Next

C1_Witness == pc = "failed" /\ Len(trace) = 5 /\ call.msgs = "respond"

\* C2: a completion call whose backend fails the first two attempts with a
\* timeout or a non-success status and succeeds on the third returns the third
\* attempt's text after exactly 3 identical requests and delays of 1500 ms and
\* 3000 ms.
C2_RetryTwiceThenSucceed ==
    (/\ call.kind = "chat"
     /\ call.status # "running"
     /\ call.script[1] \in {"http", "silent"}
     /\ call.script[2] \in {"http", "silent"}
     /\ call.script[3] = "ok")
    => /\ call.status = "returned"
       /\ call.text = ReplyText(3)
       /\ call.log = ThreeRequests(call.msgs)

\* C3: a completion call whose every attempt fails with a timeout or a
\* non-success status makes exactly 3 requests and then fails with the error of
\* the last attempt; there is never a fourth request.
C3_ThreeAttemptsThenFail ==
    /\ call.kind = "chat" => Len(Requests(call.log)) <= 3
    /\ (/\ call.kind = "chat"
        /\ call.status # "running"
        /\ \A k \in 1..3 : call.script[k] \in {"http", "silent"})
       => /\ call.status = "threw"
          /\ call.log = ThreeRequests(call.msgs)
          /\ call.error = (IF call.script[3] = "silent" THEN "TimeoutError"
                           ELSE IF build = "gamal" THEN "Error" ELSE "EvalError")
          /\ pc = "failed" /\ error = call.error

\* The attempt that is awaited fails with an error that is neither a timeout
\* nor a remote error
OtherFailure ==
    /\ pc = "await" /\ call.kind = "chat"
    /\ \/ Outcome = "reset"
       \/ Outcome = "badbody" /\ ~(call.msgs = "respond" /\ llmStreaming)

\* C4 as stated: a completion call that fails with an error other than a timeout
\* or a remote error has made exactly one request and taken no delay.
C4_OneRequestOnly ==
    (call.kind = "chat" /\ call.status = "threw" /\ call.error \in {"TypeError", "SyntaxError"})
    => call.log = <<Request(call.msgs)>>

\* C4 (amended): the attempt of a completion call that fails with an error
\* other than a timeout or a remote error is the call's last: the call fails at
\* once with that error, with no further request and no further delay, and the
\* error reaches the caller; when it is the first attempt, exactly one request
\* was made and no delay taken.
C4_OtherErrorsFailAtOnce ==
    [][OtherFailure =>
        /\ pc' = "failed"
        /\ call'.status = "threw"
        /\ call'.error = (IF Outcome = "reset" THEN "TypeError" ELSE "SyntaxError")
        /\ error' = call'.error
        /\ call'.log = call.log
        /\ sent' = sent
        /\ (attempt = MAX_RETRY_ATTEMPT => call'.log = <<Request(call.msgs)>>)]_vars

C4_Witness ==
    /\ pc = "failed" /\ call.kind = "chat" /\ call.error = "TypeError"
    /\ Len(call.log) = 3

\* C5: every invocation ends, also when a backend never responds (a request
\* that is not answered is abandoned at its deadline), and it sends at most 6
\* completion requests in Reason, 3 search requests and 3 completion requests in
\* Respond.
C5_EndsWithinBudget ==
    /\ Finished \/ ENABLED Next
    /\ sent["Reason"] <= 2 * MAX_RETRY_ATTEMPT
    /\ sent["Search"] <= MAX_RETRY_ATTEMPT
    /\ sent["Respond"] <= MAX_RETRY_ATTEMPT

----------------------------------------------------------------------------
(* Claims about the streaming client (specification SpecStream) *)

\* The result of the stream when every line arrives whole, one line a read
Reference == WholeLines(Fresh, events)

\* The sentinel line, if the stream has one, is its last line
EndsAtDone(ls) == \A i \in 1..(Len(ls) - 1) : ls[i] # DoneLine

\* C6: in streaming mode the returned text and the fragments forwarded to
\* onPartial are the same for every way of cutting the event stream into reads,
\* namely those obtained when each line arrives whole.  (Stated for streams
\* that carry nothing after their sentinel line.)
C6_CutsDoNotMatter ==
    (chatPhase = "returned" /\ EndsAtDone(events)) =>
        /\ answer = Reference.answer
        /\ partials = Reference.partials

\* The content of a data line, as the server wrote it
ContentOf(line) ==
    IF Len(line) >= 3 /\ line[1] = "data: " /\ line[2] = "{"
    THEN SubSeq(line, 3, Len(line) - 1)
    ELSE <<>>

\* The non-empty fragments a stream carries before its sentinel line, in order
RECURSIVE SentFragments(_)
SentFragments(ls) ==
    IF ls = <<>> \/ Head(ls) = DoneLine THEN <<>>
    ELSE (IF ContentOf(Head(ls)) # <<>> THEN <<ContentOf(Head(ls))>> ELSE <<>>)
         \o SentFragments(Tail(ls))

RECURSIVE Concat(_)
Concat(ss) == IF ss = <<>> THEN <<>> ELSE Head(ss) \o Concat(Tail(ss))

\* C7: in streaming mode the returned text is the first non-empty fragment
\* without its leading whitespace, followed by every later fragment exactly as
\* received, and these are the fragments forwarded to onPartial, once each and
\* in order.  (Stated for streams that carry nothing after their sentinel
\* line, whose lines each arrive whole and whose first non-empty fragment is
\* not whitespace only.)
C7_OnlyLeadingWhitespaceRemoved ==
    (/\ chatPhase = "returned" /\ aligned /\ EndsAtDone(events)
     /\ SentFragments(events) # <<>>
     /\ TrimStart(Head(SentFragments(events))) # <<>>) =>
        LET frs == SentFragments(events)
            first == TrimStart(Head(frs))
        IN  /\ answer = first \o Concat(Tail(frs))
            /\ Concat(partials) = answer

\* C8: once the line data: [DONE] has been read, nothing that arrives later
\* adds text to the answer or is forwarded to onPartial.
C8_NothingAfterDone ==
    [][sawDone => (answer' = answer /\ partials' = partials)]_vars

\* C34: a stream that carries the fragments f1..fn as content-block events
\* gives the same returned text and the same onPartial calls as the stream that
\* carries them as choices[0].delta.content events, read in the same pieces.
C34_ShapesAlike ==
    chatPhase = "returned" => (answer = twin.answer /\ partials = twin.partials)

\* The same for gamal.js, at every read
C34_ShapesAlikeGamal ==
    build = "gamal" => (answer = twin.answer /\ partials = twin.partials)

\* gamal.js has read a stream of content-block events to its end
C34_GamalReadBlocks ==
    /\ build = "gamal" /\ chatPhase = "returned"
    /\ Len(events) = 2 /\ events[1] = BlockLine(<<" ", "b">>) /\ events[2] = BlockLine(<<"a", " ">>)
    /\ answer = <<"b", "a", " ">>

----------------------------------------------------------------------------
(* Claims about the client that does not stream (specification SpecBody) *)

\* The text of the first candidate of a body, as the server wrote it
FirstText(d) == Join(d.cands[1])

C15_OneRepairAtMost ==
    [][(pc = "returned" /\ Stage = "Reason") =>
        IF callNo = 1 /\ keyphrases' # "present"
        THEN /\ callNo' = 2 /\ pc' = "await"
             /\ call'.kind = "chat" /\ call'.msgs = "repair"
             /\ call'.log = <<Request("repair")>>
             /\ sent'["Reason"] = sent["Reason"] + 1
             /\ trace' = trace
        ELSE /\ callNo' = callNo /\ callNo \in {1, 2}
             /\ trace' = Append(trace, <<"leave", "Reason">>)
             /\ sent' = sent /\ call' = call
             /\ pc' = "ready"]_vars

C15_Witness ==
    /\ pc = "ready" /\ Stage = "Search" /\ callNo = 2 /\ keyphrases = "absent"
    /\ Len(Requests(call.log)) = 1 /\ call.msgs = "repair"

----------------------------------------------------------------------------
(* Claims about the citation stream rewriter (specification SpecDisplay) *)

\* The answer pushed as one chunk
Whole == PushResult(cite, [buffer |-> <<>>, refs |-> <<>>], text)

\* C10: for every answer, either formatter and every way of cutting the answer
\* into chunks, the pushes followed by the flush print the same text and leave
\* the same refs as the push of the whole answer as one chunk; for
\* "See [citation:2] and [citation:5] and [citation:2]." the refs are 2, 5.
C10_ChunksDoNotMatter ==
    dispPhase = "flushed" =>
        /\ printed = Whole.output \o TrimEnd(Whole.display.buffer)
        /\ refsOut = Whole.display.refs
        /\ text = Example => refsOut = <<2, 5>>

\* The length of the marker that PATTERN matches at position i of s
MarkerLength(s, i) == 11 + Len(DigitRun(s, i + 10))

\* The length of a citation as the formatter wrote it at position i of s, or 0
CitationLength(kind, s, i) ==
    LET open == IF kind = "http" THEN <<"[">> ELSE <<ESC, "[", "9", "0", "m", "[">>
        close == IF kind = "http" THEN <<"]">> ELSE <<"]", ESC, "[", "0", "m">>
        run == DigitRun(s, i + Len(open))
        end == i + Len(open) + Len(run)
    IN  IF /\ i + Len(open) - 1 <= Len(s)
           /\ SubSeq(s, i, i + Len(open) - 1) = open
           /\ Len(run) >= 1
           /\ end + Len(close) - 1 <= Len(s)
           /\ SubSeq(s, end, end + Len(close) - 1) = close
        THEN Len(open) + Len(run) + Len(close)
        ELSE 0

\* The characters of s from position i on that lie outside every citation
\* marker and outside every citation the formatter wrote
RECURSIVE OutsideFrom(_, _, _)
OutsideFrom(kind, s, i) ==
    IF i > Len(s) THEN <<>>
    ELSE IF MatchesAt(s, i) THEN OutsideFrom(kind, s, i + MarkerLength(s, i))
    ELSE IF CitationLength(kind, s, i) > 0 THEN OutsideFrom(kind, s, i + CitationLength(kind, s, i))
    ELSE <<s[i]>> \o OutsideFrom(kind, s, i + 1)

\* A citation marker of the printed text lies across the start of the last
\* print call
MarkerSplit ==
    LET b == Len(printed) - Len(lastPrint)
    IN  \E i \in 1..b : MatchesAt(printed, i) /\ i + MarkerLength(printed, i) - 1 > b

\* C11: the print calls of the pushes and of the flush, joined in order, hold
\* every character of the answer that is outside a citation marker exactly once
\* and in order, trailing whitespace included, and no citation marker is printed
\* split across two print calls.
C11_EverythingPrintedOnce ==
    /\ ~MarkerSplit
    /\ dispPhase = "flushed" => OutsideFrom(cite, printed, 1) = OutsideFrom(cite, text, 1)

\* The citation number of the marker at position i of s
NumberAt(s, i) == ParseInt(DigitRun(s, i + 10))

\* The position in s of the first marker with number num, 0 without one
FirstSeen(s, num) ==
    LET at == {i \in 1..Len(s) : MatchesAt(s, i) /\ NumberAt(s, i) = num}
    IN  IF at = {} THEN 0 ELSE CHOOSE i \in at : \A j \in at : i <= j

\* refs holds distinct numbers of markers of the answer, in the order in which
\* the answer shows them first
InFirstSeenOrder(refs) ==
    /\ \A k \in 1..Len(refs) : FirstSeen(text, refs[k]) > 0
    /\ \A k, j \in 1..Len(refs) : k < j => FirstSeen(text, refs[k]) < FirstSeen(text, refs[j])

\* C12: within one display stream refs holds distinct citation numbers in the
\* order in which they were first seen, and a push only appends to refs, so the
\* ordinal of a number, 1 plus its index in refs, never changes once assigned.
C12_RefsInFirstSeenOrder ==
    [][dispPhase' = "streaming" =>
        /\ IsPrefix(display.refs, display'.refs)
        /\ InFirstSeenOrder(display'.refs)]_vars

\* s from position i on with every citation marker replaced, whole, by the
\* citation of its ordinal
RECURSIVE Replaced(_, _, _, _)
Replaced(kind, s, i, refs) ==
    IF i > Len(s) THEN <<>>
    ELSE IF MatchesAt(s, i)
    THEN LET num == NumberAt(s, i)
             refs2 == IF IndexOf(refs, num) < 0 THEN Append(refs, num) ELSE refs
         IN  Cite(kind, 1 + IndexOf(refs2, num))
             \o Replaced(kind, s, i + MarkerLength(s, i), refs2)
    ELSE <<s[i]>> \o Replaced(kind, s, i + 1, refs)

\* C32: every citation marker of the pushed text, with any number of digits
\* and also directly after another marker, is replaced by the citation of its
\* ordinal, the whole marker and nothing else being removed: after the flush
\* the printed text holds no marker and is the answer with its markers
\* replaced.
C32_EveryMarkerReplaced ==
    dispPhase = "flushed" =>
        /\ \A i \in 1..Len(printed) : ~MatchesAt(printed, i)
        /\ printed = TrimEnd(Replaced(cite, text, 1, <<>>))

\* The same for the terminal, whose citations are as long as a marker of one
\* digit, and the answers whose markers have one digit
C32_TerminalOneDigit ==
    (/\ cite = "terminal"
     /\ \A i \in 1..Len(text) : MatchesAt(text, i) => MarkerLength(text, i) = MARKER_LENGTH)
    => C32_EveryMarkerReplaced

\* The part of the answer that the pushes have taken so far
Pushed == SubSeq(text, 1, Len(text) - Len(pending))

\* s is t with some characters left out
RECURSIVE IsSubsequence(_, _)
IsSubsequence(s, t) ==
    IF s = <<>> THEN TRUE
    ELSE IF t = <<>> THEN FALSE
    ELSE IF Head(s) = Head(t) THEN IsSubsequence(Tail(s), Tail(t))
    ELSE IsSubsequence(s, Tail(t))

\* C33: after every push the buffer that is withheld has MAX_LOOKAHEAD
\* characters at most, and all that was pushed so far is in the printed text
\* followed by that buffer: what is not in the withheld tail has been passed to
\* print.
C33_TailWithheld ==
    dispPhase = "streaming" =>
        /\ Len(display.buffer) <= MAX_LOOKAHEAD
        /\ IsSubsequence(OutsideFrom(cite, Pushed, 1),
                         OutsideFrom(cite, printed \o display.buffer, 1))

C33_Witness ==
    /\ dispPhase = "streaming"
    /\ printed # <<>>
    /\ Len(display.buffer) = MAX_LOOKAHEAD
    /\ pending # <<>>

----------------------------------------------------------------------------
(* Claims about the codec (specification SpecCodec) *)

\* The value holds the marker of a key that comes after position n
HoldsLaterMarker(b, value, n) ==
    \E m \in (n + 1)..Len(Keys(b)) : \E i \in 1..Len(value) : value[i] = KeyColon(b, Keys(b)[m])

NoLaterMarker(b, kv) ==
    \A n \in 1..Len(Keys(b)) :
        Keys(b)[n] \in DOMAIN kv => ~HoldsLaterMarker(b, kv[Keys(b)[n]], n)

Plain(b, kv) ==
    /\ Keys(b)[Len(Keys(b))] \in DOMAIN kv
    /\ \A n \in 1..Len(Keys(b)) :
          Keys(b)[n] \in DOMAIN kv =>
              LET value == kv[Keys(b)[n]]
              IN  /\ value # <<>> /\ Trim(value) = value
                  /\ ~HoldsLaterMarker(b, value, n - 1)
                  /\ n < Len(Keys(b)) => \A i \in 1..Len(value) : value[i] # NL

----------------------------------------------------------------------------
(* Claims about decoding (specifications SpecDecode and SpecBreakdown) *)

\* The text as given, with } appended, and with "} appended
Repairs(str) == <<str, str \o <<"}">>, str \o <<QUOTE, "}">>>>

\* C14: decoding never raises: deconstruct() returns pairs of the keys for
\* every text, and none when the text lacks the marker of the last key;
\* unJSON() returns what the first of the text as given, the text with }
\* appended and the text with "} appended parses to, and no pairs only when
\* none of the three parses.
C14_DecodeNeverRaises ==
    /\ codecPhase = "decoded" =>
          /\ DOMAIN decoded \subseteq KeySet(build)
          /\ LastIndexOf(encoded, KeyColon(build, "topic")) = 0 => decoded = NoParts
          /\ LastIndexOf(encoded, KeyColon(build, "topic")) > 0 => "topic" \in DOMAIN decoded
    /\ codecPhase = "parsed" =>
          LET parsing == {k \in 1..3 : JsonParse(Repairs(encoded)[k]).ok}
          IN  IF parsing = {} THEN decoded = NoParts
              ELSE \A k \in parsing :
                      (\A j \in parsing : k <= j) => decoded = JsonParse(Repairs(encoded)[k]).value

C14_Witness ==
    /\ codecPhase = "parsed"
    /\ encoded = <<"{", KeyphrasesName, QUOTE, "x">>
    /\ decoded = Put(NoParts, "keyphrases", <<"x">>)

\* What breakdown() decodes first: the text through unJSON() when gamal.js
\* finds it to start with {, through deconstruct() otherwise
FirstDecoded ==
    LET str == BreakdownText(hint, encoded)
    IN  IF build = "gamal" /\ str # <<>> /\ Head(str) = "{"
        THEN UnJSON(str)
        ELSE Deconstruct(build, str)

\* C16: whenever the pairs decoded from a completion have no topic, or an empty
\* one, breakdown() decodes the same text again with the line of the synthetic
\* topic appended: the pairs it returns have a topic that is not empty and keep
\* every other pair that was decoded.
C16_TopicAlwaysPresent ==
    (/\ codecPhase = "brokendown"
     /\ ("topic" \notin DOMAIN FirstDecoded \/ FirstDecoded["topic"] = <<>>))
    => /\ "topic" \in DOMAIN decoded
       /\ decoded["topic"] # <<>>
       /\ \A k \in DOMAIN FirstDecoded \ {"topic"} :
             k \in DOMAIN decoded /\ decoded[k] = FirstDecoded[k]

\* The last key and the place of the last occurrence of its marker
Anchor == Keys(build)[Len(Keys(build))]

AnchorAt == LastIndexOf(encoded, KeyColon(build, Anchor))

\* C31: deconstruct() takes the value of the final field from the last
\* occurrence of its marker up to the end of the text, and the value of every
\* other field from the right-most occurrence of its marker to the left of the
\* boundary found so far, trimmed and cut to its first line; the name of a
\* field inside the content of another field neither changes the value of the
\* final field nor hides a field.
C31_LastMarkerBounds ==
    (codecPhase = "decoded" /\ AnchorAt > 0) =>
        /\ decoded[Anchor] = Trim(SubSeq(encoded, AnchorAt + 1, Len(encoded)))
        /\ decoded = DeconstructLoop(build, SubSeq(encoded, 1, AnchorAt - 1),
                                     Len(Keys(build)) - 1,
                                     Put(NoParts, Anchor,
                                         Trim(SubSeq(encoded, AnchorAt + 1, Len(encoded)))))

\* The same for the texts that hold the marker of the final field once
C31_OneFinalMarker ==
    (Cardinality({i \in 1..Len(encoded) : encoded[i] = KeyColon(build, Anchor)}) = 1)
    => C31_LastMarkerBounds

\* C39: when the repair completion supplies the keyphrases after the
\* keyphrases marker that ends the repair prompt, the Reasoning Stage decodes
\* the completion against the repair prompt: its keyphrases are that text and
\* its thought is the thought that the repair prompt showed again.
C39_RepairDecodedAgainstItsPrompt ==
    (codecPhase = "repaired" /\ hint # <<>>) =>
        /\ "keyphrases" \in DOMAIN decoded
        /\ decoded["keyphrases"] = FirstLine(Trim(encoded))
        /\ "thought" \in DOMAIN decoded
        /\ decoded["thought"] = ThoughtText(record)

\* The same for index.js
C39_RepairDecodedIndex == build = "index" => C39_RepairDecodedAgainstItsPrompt

C39_IndexRepaired ==
    /\ build = "index" /\ codecPhase = "repaired"
    /\ encoded = <<"x", " ", "x">>
    /\ record = Put(NoParts, "thought", <<"y">>)
    /\ decoded["keyphrases"] = <<"x", " ", "x">> /\ decoded["thought"] = <<"y">>

----------------------------------------------------------------------------
(* Claims about the references (specification SpecShape) *)

\* The entries of rs that have a url and a snippet, in their order
RECURSIVE Complete(_)
Complete(rs) ==
    IF rs = <<>> THEN <<>>
    ELSE IF Head(rs).url # "" /\ Head(rs).content # "" THEN <<Head(rs)>> \o Complete(Tail(rs))
         ELSE Complete(Tail(rs))

\* C17: a search that returns yields between 1 and 3 references, in the order
\* of the backend's ranking, with the positions 1, 2, ..., n, each with a url
\* and a snippet that are not empty.
C17_ReferencesWellFormed ==
    shaped = "returned" =>
        /\ Len(references) \in 1..3
        /\ \A i \in 1..Len(references) :
              /\ references[i].position = i
              /\ references[i].url # ""
              /\ references[i].snippet # ""
        /\ \E pick \in [1..Len(references) -> 1..Len(results)] :
              /\ \A i, j \in 1..Len(references) : i < j => pick[i] < pick[j]
              /\ \A i \in 1..Len(references) :
                    /\ references[i].url = results[pick[i]].url
                    /\ references[i].snippet = results[pick[i]].content

\* C18: results without a url or without a snippet are removed before the cut:
\* the references are the first 3 of the results that have both, and searxng()
\* throws exactly when no result has both.
C18_FilterBeforeCut ==
    /\ shaped = "returned" =>
          /\ Len(references) = (IF Len(Complete(results)) < 3 THEN Len(Complete(results)) ELSE 3)
          /\ \A i \in 1..Len(references) :
                /\ references[i].url = Complete(results)[i].url
                /\ references[i].snippet = Complete(results)[i].content
    /\ shaped = "threw" => Complete(results) = <<>>

----------------------------------------------------------------------------
(* Claims about the retries of a search (specification Spec) *)

\* The search attempt that is awaited ends without references: no usable
\* result, a non-success status, or no response until the deadline
SearchAttemptFails ==
    /\ pc = "await" /\ call.kind = "search"
    /\ Outcome \in {"ok", "http", "silent"}
    /\ pc' # "returned"

----------------------------------------------------------------------------
(* Claims about the Response Stage (specification SpecRespond) *)

----------------------------------------------------------------------------
(* Claims about the delegates (specification Spec) *)

\* C22: in every invocation, successful or failed, enter and leave are each
\* called exactly once for every stage that starts, as matching pairs: every
\* enter(X) is followed by leave(X) before any call for another stage and
\* before the invocation ends.
C22_EnterLeavePaired ==
    /\ \A i \in 1..Len(trace) :
          IF i % 2 = 1 THEN trace[i][1] = "enter"
          ELSE trace[i] = <<"leave", trace[i - 1][2]>>
    /\ \A i, j \in 1..Len(trace) : i # j => trace[i] # trace[j]
    /\ (Finished => Len(trace) % 2 = 0)

\* C23: the stream delegate is called only between enter(Respond) and
\* leave(Respond), never during the Reasoning Stage, its repair request or the
\* Search Stage, and it only ever receives fragments of the answer: the calls
\* of an invocation that returned are the parts of the text that is its answer.
C23_StreamOnlyTheAnswer ==
    /\ \A i \in 1..Len(streamed) :
          /\ streamed[i].at > 0
          /\ trace[streamed[i].at] = <<"enter", "Respond">>
    /\ (Stage = "Respond" /\ pc \in {"returned", "done"}) =>
          \A i \in 1..Len(streamed) : streamed[i].reply = call.text

\* The stream delegate is called in the Response Stage only
StreamInRespondOnly ==
    \A i \in 1..Len(streamed) :
        streamed[i].at > 0 /\ trace[streamed[i].at] = <<"enter", "Respond">>

\* The fragments that the handler of the running call was given, in order
Fragmented == [i \in 1..Len(streamed) |-> <<streamed[i].reply, streamed[i].part>>]

\* The fragments that make up the text the call returned: its parts when it
\* was streamed, the whole text otherwise, none for an empty text
FragmentsOfReturned ==
    IF call.text = 0 THEN <<>>
    ELSE IF llmStreaming THEN [i \in 1..Len(PartsOf(call.text)) |-> <<call.text, PartsOf(call.text)[i]>>]
    ELSE <<<<call.text, 0>>>>

\* C36: for a completion call with a handler, all fragments the handler was
\* given during the call, those of attempts that failed and were retried
\* included, are together the text that the call returns.
C36_PartialsAreTheAnswer ==
    (Stage = "Respond" /\ call.kind = "chat" /\ call.status = "returned")
    => Fragmented = FragmentsOfReturned

\* The same for gamal.js
C36_PartialsAreTheAnswerGamal == build = "gamal" => C36_PartialsAreTheAnswer

----------------------------------------------------------------------------
(* Claims about the reference list (specification SpecList) *)

\* Whether sub occurs in s
Occurs(sub, s) == \E i \in 0..(Len(s) - Len(sub)) : SubSeq(s, i + 1, i + Len(sub)) = sub

\* The display ordinal as the surface writes it
Ordinal(k) == Cite(IF cite = "terminal" THEN "terminal" ELSE "http", k)

\* C27: after an answer is displayed, every display ordinal [k] that appears
\* in the rewritten answer has a line [k] in the reference list printed after
\* it, with the url of the reference whose position is the k-th distinct cited
\* number; with one reference and the answer "Jupiter is the largest planet
\* [citation:1]." the list is exactly one line, [1] with that reference's url.
C27_EveryOrdinalListed ==
    (dispPhase = "flushed" /\ listPhase # "idle") =>
        /\ \A k \in 1..9 :
              Occurs(Ordinal(k), printed) =>
                  /\ k <= Len(refsOut)
                  /\ refsOut[k] \in 1..Len(references)
                  /\ \E i \in 1..Len(listed) :
                        listed[i] = [ordinal |-> k, url |-> references[refsOut[k]].url]
        /\ (text = Jupiter /\ Len(references) = 1) =>
              listed = <<[ordinal |-> 1, url |-> references[1].url]>>

\* A cited number that is a position of a reference is not enough for a line
CitedPositionListed ==
    (dispPhase = "flushed" /\ listPhase # "idle") =>
        \A k \in 1..Len(refsOut) :
            refsOut[k] \in 1..Len(references) =>
                \E i \in 1..Len(listed) :
                    listed[i] = [ordinal |-> k, url |-> references[refsOut[k]].url]

----------------------------------------------------------------------------
(* Claims about the loops over the markers (specification SpecLoops) *)

\* C38: taking the citation markers out of the text that is spoken and
\* renumbering them for a Telegram reply ends for every answer: text that
\* begins like a marker and is malformed is left as it is and the loop ends,
\* so no state is reached in which the loop runs for ever.
C38_LoopsEnd ==
    /\ dispPhase # "looping"
    /\ dispPhase \in {"spoken", "flushed"} =>
          (text \in Malformed => Occurs(MarkerStart, printed) \/ listPhase = "threw")

\* The same for the answers whose every '[citation:' is followed by a digit
C38_LoopsEndWellFormed ==
    (\A i \in 0..Len(text) :
        IndexOfMarker(text, i) >= 0 =>
            /\ IndexOfMarker(text, i) + 11 <= Len(text)
            /\ IsDigit(text[IndexOfMarker(text, i) + 11]))
    => dispPhase # "looping"

----------------------------------------------------------------------------
(* Claims about the surfaces and the history (specification SpecSurface) *)

\* All entries of all arrays that ever were a history
Entries2 == {<<a, i>> : a \in 1..Len(heap), i \in 1..3}

Stores == {p \in Entries2 : p[2] <= Len(heap[p[1]])}

\* C21: the answer that is stored in the history is exactly the text that the
\* completion client returned, with its literal citation markers; what the
\* citation rewriter made of it is never stored, on any surface.
C21_RawAnswerStored ==
    \A p \in Stores :
        LET e == heap[p[1]][p[2]]
        IN  /\ e.answer = jobs[e.job].reply
            /\ Occurs(MarkerStart, e.answer)
            /\ (jobs[e.job].shown # jobs[e.job].reply => e.answer # jobs[e.job].shown)

C21_Witness ==
    /\ surface = "http"
    /\ \E p \in Stores :
          /\ heap[p[1]][p[2]].answer = Example
          /\ Occurs(<<"[", "1", "]">>, jobs[heap[p[1]][p[2]].job].shown)

\* The pipeline of the j-th inquiry throws in this step
Fails(j) == jobs[j].phase = "piping" /\ jobs'[j].piped = "threw"

\* C24: when a pipeline invocation fails, the surface appends nothing to the
\* history: the step in which the failure reaches the handler leaves every
\* history as it was, and no entry is ever the turn of a failed invocation.
C24_FailureAppendsNothing ==
    /\ [][\A j \in 1..Len(jobs) : Fails(j) => heap' = heap /\ slot' = slot]_vars
    /\ [](\A p \in Stores : jobs[heap[p[1]][p[2]].job].piped = "returned")

C24_Witness ==
    /\ alive
    /\ \E j \in 1..Len(jobs) : jobs[j].piped = "threw"
    /\ \E p \in Stores : TRUE

\* A command is handled in this step, as the j-th inquiry
Commanded(j) == Len(jobs') = j /\ Len(jobs) = j - 1 /\ jobs'[j].kind \in {"/reset", "/review"}

\* The history of the conversation (none yet: empty)
History == IF slot = 0 THEN <<>> ELSE heap[slot]

\* C25 as stated: /reset and /review never start a pipeline, on any surface:
\* handling either one is over in one step, with no pipeline to await; /reset
\* leaves the history empty and /review leaves it unchanged.
C25_CommandsStartNoPipeline ==
    [][\A j \in 1..MaxJobs : Commanded(j) =>
          /\ jobs'[j].phase = "handled"
          /\ jobs'[j].kind = "/reset" => History' = <<>>
          /\ jobs'[j].kind = "/review" => History' = History]_vars

\* C25 (amended): on the terminal, HTTP and Telegram surfaces /reset and
\* /review never start a pipeline: handling either one is over in one step,
\* with no pipeline to await, so with no enter/leave call and no request;
\* /reset leaves the history empty and /review leaves it unchanged.  The
\* evaluation surface hands every inquiry to the pipeline.
C25_CommandsIntercepted ==
    [][\A j \in 1..MaxJobs : (Commanded(j) /\ surface # "evaluate") =>
          /\ jobs'[j].phase = "handled"
          /\ jobs'[j].ended
          /\ jobs'[j].kind = "/reset" => History' = <<>> /\ jobs'[j].out = "cleared"
          /\ jobs'[j].kind = "/review" =>
                /\ History' = History
                /\ jobs'[j].out = (IF History = <<>> THEN "nothing" ELSE "review")
          /\ \A i \in 1..(j - 1) : jobs'[i] = jobs[i]]_vars

C25_Witness ==
    /\ Len(jobs) = 3
    /\ jobs[1].phase = "answered" /\ jobs[2].kind = "/review" /\ jobs[2].out = "review"
    /\ jobs[3].kind = "/reset" /\ jobs[3].phase = "handled" /\ History = <<>>

Piping == {j \in 1..Len(jobs) : jobs[j].phase = "piping"}

\* C28: in the HTTP and Telegram surfaces two pipeline invocations that use the
\* history of the same conversation are never in flight at the same time.
C28_OneInvocationAtATime ==
    surface \in {"http", "telegram"} => Cardinality(Piping) <= 1

\* The last /reset that was handled (0: none)
LastReset ==
    IF \E j \in 1..Len(jobs) : jobs[j].kind = "/reset" /\ jobs[j].phase = "handled"
    THEN CHOOSE j \in 1..Len(jobs) :
            /\ jobs[j].kind = "/reset" /\ jobs[j].phase = "handled"
            /\ \A i \in (j + 1)..Len(jobs) : ~(jobs[i].kind = "/reset" /\ jobs[i].phase = "handled")
    ELSE 0

\* C29: the history records every successful turn exactly once: every entry is
\* the turn of an invocation that returned, appended after it returned, no turn
\* is there twice, and once all pipelines have finished the history holds the
\* turn of every invocation that arrived after the last reset and returned.
C29_EveryTurnOnce ==
    /\ \A i \in 1..Len(History) : jobs[History[i].job].piped = "returned"
    /\ \A i, k \in 1..Len(History) : i # k => History[i].job # History[k].job
    /\ (alive /\ Piping = {}) =>
          \A j \in (LastReset + 1)..Len(jobs) :
              jobs[j].piped = "returned" => \E i \in 1..Len(History) : History[i].job = j

\* C37: after a /reset was handled, the history of the conversation never
\* holds a turn whose inquiry was received before that reset, also when the
\* pipeline of that inquiry was in flight at the reset; for the HTTP surface
\* and for a Telegram chat.
C37_ResetForgetsEarlierTurns ==
    surface \in {"http", "telegram"} =>
        \A i \in 1..Len(History) : History[i].job > LastReset

\* The same for the surfaces that handle one inquiry at a time
C37_ResetForgetsOneAtATime ==
    OneAtATime(surface) => \A i \in 1..Len(History) : History[i].job > LastReset

\* The response of the j-th request was ended, after an answer or after one
\* error message with the server still running
Served(j) ==
    /\ Len(jobs) >= j
    /\ jobs[j].ended
    /\ jobs[j].piped = "threw" => jobs[j].out = "error" /\ alive

\* C30: every /chat request to the HTTP surface eventually has its response
\* ended, whether the pipeline succeeds or fails; a failed invocation ends the
\* response with a single error message and the server goes on serving.
C30_ResponseAlwaysEnded ==
    (surface = "http" /\ Piping # {}) ~> (\A j \in 1..Len(jobs) : Served(j))

\* The same for the requests whose pipeline returns
AnsweredIsEnded ==
    \A j \in 1..Len(jobs) :
        (surface = "http" /\ jobs[j].phase = "answered") => jobs[j].ended /\ jobs[j].out = "answer"

\* The same for the requests whose pipeline returns, with fairness
ReturnedIsEnded ==
    (surface = "http" /\ build = "gamal" /\ Piping # {}) ~>
        (\A j \in 1..Len(jobs) : jobs[j].ended \/ jobs[j].piped = "threw" \/ ~alive)

----------------------------------------------------------------------------
(* Claims about the requests and the history (specification SpecPrompts) *)

\* Two histories agree on their last n turns
AgreeOnLast(h1, h2, n) ==
    \A k \in 0..(n - 1) :
        /\ (k < Len(h1)) = (k < Len(h2))
        /\ k < Len(h1) => h1[Len(h1) - k] = h2[Len(h2) - k]

\* C35: the request of the Reasoning Stage is the same for two histories that
\* agree on their last 3 turns, and the request of the Response Stage is the
\* same for two histories that agree on their last 2 turns.
C35_OnlyRecentTurns ==
    /\ ("Reason" \in DOMAIN asked /\ AgreeOnLast(histories[1], histories[2], 3))
       => asked["Reason"][1] = asked["Reason"][2]
    /\ ("Respond" \in DOMAIN asked /\ AgreeOnLast(histories[1], histories[2], 2))
       => asked["Respond"][1] = asked["Respond"][2]

\* gamal.js has sent both requests for two histories of four turns that differ
\* in the second turn only, and the request of the Response Stage holds turns
C35_Witness ==
    /\ build = "gamal"
    /\ histories = <<<<"t1", "t1", "t2", "t1">>, <<"t1", "t2", "t2", "t1">>>>
    /\ "Respond" \in DOMAIN asked
    /\ Len(asked["Respond"][1]) = 2
    /\ asked["Reason"][1] # asked["Reason"][2]
    /\ asked["Respond"][1] = asked["Respond"][2]

----------------------------------------------------------------------------
(* Claims about the context (specification SpecContext) *)

\* C26: no stage modifies what it was given: the context a stage returns has
\* the inquiry, history and delegates of the context that was given, the
\* fields of earlier stages keep their values, and the history array holds
\* what it held when the invocation began.
C26_StagesKeepTheContext ==
    /\ [](/\ \A f \in DOMAIN given : f \in DOMAIN context /\ context[f] = given[f]
          /\ \A k \in 1..ctxAt : Produces(PipeOrder[k]) \subseteq DOMAIN context)
    /\ [][/\ \A f \in DOMAIN context : f \in DOMAIN context' /\ context'[f] = context[f]
          /\ array' = array /\ given' = given]_vars

C26_Witness ==
    /\ ctxAt = 3 /\ array = <<1, 2>>
    /\ context["references"] = "found" /\ context["answer"] = "found"
    /\ context["topic"] = "undefined" /\ context["inquiry"] = "q2"

====
